---- MODULE Spec2Model ----
(***************************************************************************)
(* A model of the llmind diagnosis service and ingestion scripts.          *)
(*                                                                         *)
(*   - the traversal engine of "3. DBdsmsplit.py" (get_next_question,      *)
(*     get_similar_case, get_icd11_codes, get_differential_diagnoses and   *)
(*     the askLLM request handler; api.py holds the same replay and final  *)
(*     step without the ICD-11 and similar-case lookups);                  *)
(*   - the hierarchy crawler retrieve_code of "1. DBicddownloader.py".     *)
(*                                                                         *)
(* Text is modelled as a sequence of one-character strings, so that        *)
(* substring containment and difflib's matching are computed, not assumed. *)
(* Python None, SQL NULL and JSON null are the string "None".              *)
(***************************************************************************)
EXTENDS Integers, Sequences, FiniteSets, TLC

VARIABLES
    \* ---- the database (read by the service, never written by it)
    ICD11_Codes,            \* table dbo.ICD11_Codes: rows [code, inclusions]
    DSM5_Cases,             \* table dbo.DSM5_Cases: rows [Case_Number, Introduction, Diagnosis]
    DiagnosisData,          \* table dbo.DiagnosisData: rows [level_0_info, level, type, value]
    \* ---- askLLM, one activation per request id
    active,                 \* the request ids being served
    pc,                     \* position of each activation in askLLM
    input_string,           \* request field input_string
    previous_answers,       \* request field previous_answers (a list when well formed)
    fault,                  \* what goes wrong while this request is served
    initial_diagnosis,      \* candidate text taken from the LLM answer
    conn,                   \* "unset", "open", "closed" or None
    similar_case,           \* <<>> for None, <<case>> for a found case
    similar_case_bound,     \* FALSE while the local similar_case was never assigned
    icd11_codes,
    icd11_codes_similar,
    differential_diagnoses,
    current_level,
    next_question,
    final_diagnosis,
    idx,                    \* position of the replay loop in previous_answers
    response,               \* <<>> until the request is answered, then <<response>>
    calls,                  \* history: the get_next_question calls made, <<level, answer>>
    queried,                \* history: get_differential_diagnoses was called
    \* ---- one pure function applied to drawn arguments
    call,                   \* the arguments
    ret,                    \* <<>> before the call, <<result>> after it
    \* ---- retrieve_code
    hierarchy,              \* node -> [has_child, child, classKind, ok]
    stack,                  \* the recursion: frames [node, next]
    results,                \* the caller-owned accumulator
    fetched,                \* history: the nodes fetched, in order
    previous_results,       \* <<>>, or <<the results of the run before this one>>
    \* ---- write_dataframe_to_sql
    ICD11_Final_Data,       \* table ICD11_Final_Data: [exists, rows], the committed rows
    writer                  \* run -> its position and locals in write_dataframe_to_sql

dbVars == <<ICD11_Codes, DSM5_Cases, DiagnosisData>>
askVars == <<active, pc, input_string, previous_answers, fault, initial_diagnosis,
             conn, similar_case, similar_case_bound, icd11_codes, icd11_codes_similar,
             differential_diagnoses, current_level, next_question, final_diagnosis,
             idx, response, calls, queried>>
pureVars == <<call, ret>>
crawlVars == <<hierarchy, stack, results, fetched, previous_results>>
upsertVars == <<ICD11_Final_Data, writer>>
vars == <<dbVars, askVars, pureVars, crawlVars, upsertVars>>

None == "None"

(***************************************************************************)
(* Bounds of the model.                                                    *)
(***************************************************************************)
MaxNodes == 3       \* rows of DiagnosisData in the traversal scenarios
MaxLevel == 2       \* deepest level of a row
MaxAnswers == 2     \* length of previous_answers
MaxTextLen == 2     \* length of a text compared by get_similar_case
MaxCases == 2       \* rows of DSM5_Cases
MaxCodes == 2       \* rows of ICD11_Codes
MaxTreeNodes == 4   \* nodes of a crawled hierarchy
MaxChunks == 5      \* pieces of text in the pages handed to the segmentation
MaxEntities == 2    \* hierarchy entities handed to the fusion
MaxSegments == 2    \* text segments handed to the fusion
MaxDocNodes == 4    \* values of a decision-tree document
MaxKeyLen == 5      \* characters of a key of a decision-tree document
MaxRows == 2        \* rows of ICD11_Final_Data and of the records written to it
MaxDagNodes == 4    \* nodes of a crawled acyclic hierarchy
MaxFiles == 3       \* decision-tree documents of the folder
MaxLeaves == 2      \* leaves of a decision-tree document handed to the loader
MaxBatch == 3       \* entries handed to insert_data_into_table

Requests == {1, 2}

(***************************************************************************)
(* Generic helpers.                                                        *)
(***************************************************************************)
Min(S) == CHOOSE x \in S : \A y \in S : x <= y
Max(S) == CHOOSE x \in S : \A y \in S : x >= y

SeqsUpTo(S, n) == UNION {[1..k -> S] : k \in 0..n}

\* Python `needle in hay` on str: verbatim and case-sensitive.
Contains(hay, needle) ==
    \E i \in 0..(Len(hay) - Len(needle)) :
        SubSeq(hay, i + 1, i + Len(needle)) = needle

(***************************************************************************)
(* SQL Server `column LIKE ?` with the parameter f"%{text}%".  The text is *)
(* pasted into the pattern unescaped, so its wildcards act: '%' matches    *)
(* any run of characters, '_' any one character, [set] one character of    *)
(* the set and [^set] one character outside it; a set lists characters and *)
(* ranges a-b, and the wildcards are ordinary characters inside it.  A '[' *)
(* that no ']' closes matches nothing.  Characters are compared under the  *)
(* default, case-insensitive collation.                                    *)
(***************************************************************************)
UpperCase == <<"A", "B", "C", "D", "E", "F", "G", "H", "I", "J", "K", "L", "M",
               "N", "O", "P", "Q", "R", "S", "T", "U", "V", "W", "X", "Y", "Z">>
LowerCase == <<"a", "b", "c", "d", "e", "f", "g", "h", "i", "j", "k", "l", "m",
               "n", "o", "p", "q", "r", "s", "t", "u", "v", "w", "x", "y", "z">>
Digits == <<"0", "1", "2", "3", "4", "5", "6", "7", "8", "9">>

\* The collation compares letters without their case.
Collate(c) ==
    IF \E k \in 1..Len(UpperCase) : UpperCase[k] = c
    THEN LowerCase[CHOOSE k \in 1..Len(UpperCase) : UpperCase[k] = c]
    ELSE c

\* The place of a digit or a letter in the order of the collation (digits
\* before letters), 0 for any other character.
SortKey(c) ==
    IF \E k \in 1..Len(Digits) : Digits[k] = c
    THEN CHOOSE k \in 1..Len(Digits) : Digits[k] = c
    ELSE IF \E k \in 1..Len(LowerCase) : LowerCase[k] = Collate(c)
    THEN Len(Digits) + (CHOOSE k \in 1..Len(LowerCase) : LowerCase[k] = Collate(c))
    ELSE 0

\* c lies in the range low-high of a set
InRange(c, low, high) ==
    \/ Collate(c) = Collate(low)
    \/ Collate(c) = Collate(high)
    \/ /\ SortKey(c) # 0 /\ SortKey(low) # 0 /\ SortKey(high) # 0
       /\ SortKey(low) <= SortKey(c) /\ SortKey(c) <= SortKey(high)

\* c is a member of the set written in pattern[a..b]
RECURSIVE InSet(_, _, _, _)
InSet(c, pattern, a, b) ==
    IF a > b THEN FALSE
    ELSE IF a + 2 <= b /\ pattern[a + 1] = "-"
         THEN InRange(c, pattern[a], pattern[a + 2]) \/ InSet(c, pattern, a + 3, b)
         ELSE Collate(c) = Collate(pattern[a]) \/ InSet(c, pattern, a + 1, b)

\* The position of the ']' that closes the '[' at pattern[j], 0 when none does.
SetEnd(pattern, j) ==
    LET closing == {k \in (j + 1)..Len(pattern) : pattern[k] = "]"}
    IN  IF closing = {} THEN 0 ELSE Min(closing)

\* c matches the [set] or [^set] written in pattern[j..e]
MatchesSet(c, pattern, j, e) ==
    IF j + 1 < e /\ pattern[j + 1] = "^"
    THEN ~InSet(c, pattern, j + 2, e - 1)
    ELSE InSet(c, pattern, j + 1, e - 1)

\* value[i..] matches pattern[j..]
RECURSIVE LikeFrom(_, _, _, _)
LikeFrom(value, i, pattern, j) ==
    IF j > Len(pattern) THEN i > Len(value)
    ELSE IF pattern[j] = "%"
    THEN \E k \in i..(Len(value) + 1) : LikeFrom(value, k, pattern, j + 1)
    ELSE IF pattern[j] = "["
    THEN LET e == SetEnd(pattern, j)
         IN  /\ e # 0
             /\ i <= Len(value)
             /\ MatchesSet(value[i], pattern, j, e)
             /\ LikeFrom(value, i + 1, pattern, e + 1)
    ELSE /\ i <= Len(value)
         /\ pattern[j] = "_" \/ Collate(pattern[j]) = Collate(value[i])
         /\ LikeFrom(value, i + 1, pattern, j + 1)

\* pattern = f"%{text}%"
LikePattern(text) == <<"%">> \o text \o <<"%">>

Like(value, text) == LikeFrom(value, 1, LikePattern(text), 1)

(***************************************************************************)
(* difflib.SequenceMatcher(None, a, b).ratio() for texts under 200         *)
(* characters (no junk, no autojunk): Ratcliff/Obershelp matching.         *)
(* Positions are 0-based and half-open, as in difflib.                     *)
(***************************************************************************)

\* find_longest_match: the longest block a[i:i+k] = b[j:j+k] inside the
\* windows, the one starting earliest in a, then earliest in b.
find_longest_match(a, alo, ahi, b, blo, bhi) ==
    LET blocks == {m \in (alo..(ahi - 1)) \X (blo..(bhi - 1)) \X (1..(ahi - alo)) :
                      /\ m[1] + m[3] <= ahi
                      /\ m[2] + m[3] <= bhi
                      /\ \A d \in 0..(m[3] - 1) : a[m[1] + d + 1] = b[m[2] + d + 1]}
    IN  IF blocks = {} THEN <<alo, blo, 0>>
        ELSE LET k == Max({m[3] : m \in blocks})
                 i == Min({m[1] : m \in {x \in blocks : x[3] = k}})
                 j == Min({m[2] : m \in {x \in blocks : x[3] = k /\ x[1] = i}})
             IN  <<i, j, k>>

\* get_matching_blocks, summed: the number of matched characters.
RECURSIVE matched_size(_, _, _, _, _, _)
matched_size(a, alo, ahi, b, blo, bhi) ==
    LET m == find_longest_match(a, alo, ahi, b, blo, bhi)
        i == m[1]
        j == m[2]
        k == m[3]
    IN  IF k = 0 THEN 0
        ELSE k + (IF alo < i /\ blo < j
                    THEN matched_size(a, alo, i, b, blo, j) ELSE 0)
               + (IF i + k < ahi /\ j + k < bhi
                    THEN matched_size(a, i + k, ahi, b, j + k, bhi) ELSE 0)

\* ratio(): 2.0 * matches / (len(a) + len(b)), 1.0 for two empty texts.
\* A ratio is kept exact, as <<numerator, denominator>>.
ratio(a, b) ==
    IF Len(a) + Len(b) = 0 THEN <<1, 1>>
    ELSE <<2 * matched_size(a, 0, Len(a), b, 0, Len(b)), Len(a) + Len(b)>>

RatioGT(x, y) == x[1] * y[2] > y[1] * x[2]
RatioGE(x, y) == x[1] * y[2] >= y[1] * x[2]

(***************************************************************************)
(* get_similar_case: the loop over the fetched cases.                      *)
(***************************************************************************)
\* `similarity > best_similarity and similarity >= confidence_threshold`
BetterMatch(similarity, best_similarity, confidence_threshold) ==
    RatioGT(similarity, best_similarity) /\ RatioGE(similarity, confidence_threshold)

RECURSIVE similar_case_loop(_, _, _, _, _, _)
similar_case_loop(cases, i, case_description, confidence_threshold, best_similarity, best_match) ==
    IF i > Len(cases) THEN best_match
    ELSE LET similarity == ratio(case_description, cases[i].Introduction)
         IN  IF BetterMatch(similarity, best_similarity, confidence_threshold)
             THEN similar_case_loop(cases, i + 1, case_description, confidence_threshold,
                      similarity,
                      <<[Case_Number |-> cases[i].Case_Number,
                         Introduction |-> cases[i].Introduction,
                         Diagnosis |-> cases[i].Diagnosis,
                         similarity |-> similarity]>>)
             ELSE similar_case_loop(cases, i + 1, case_description, confidence_threshold,
                      best_similarity, best_match)

\* cases: the rows of DSM5_Cases; the result is <<>> for None.
get_similar_case(cases, case_description, confidence_threshold) ==
    similar_case_loop(cases, 1, case_description, confidence_threshold, <<0, 1>>, <<>>)

(***************************************************************************)
(* get_icd11_codes: WHERE code LIKE %name% OR inclusions LIKE %name%.      *)
(***************************************************************************)
IcdRowMatches(row, diagnosis_name) ==
    Like(row.code, diagnosis_name) \/ Like(row.inclusions, diagnosis_name)

get_icd11_codes(table, diagnosis_name) ==
    SelectSeq(table, LAMBDA row : IcdRowMatches(row, diagnosis_name))

(***************************************************************************)
(* get_differential_diagnoses: WHERE level_0_info LIKE %initial_diagnosis% *)
(* ORDER BY level (the order of the table is kept inside one level).       *)
(***************************************************************************)
RECURSIVE InsertByLevel(_, _)
InsertByLevel(sorted, row) ==
    IF sorted = <<>> THEN <<row>>
    ELSE IF sorted[Len(sorted)].level <= row.level THEN Append(sorted, row)
    ELSE Append(InsertByLevel(SubSeq(sorted, 1, Len(sorted) - 1), row),
                sorted[Len(sorted)])

RECURSIVE OrderByLevel(_)
OrderByLevel(rows) ==
    IF rows = <<>> THEN <<>>
    ELSE InsertByLevel(OrderByLevel(SubSeq(rows, 1, Len(rows) - 1)), rows[Len(rows)])

Diagnosis(row) == [level |-> row.level, type |-> row.type, value |-> row.value]

RECURSIVE MapDiagnosis(_)
MapDiagnosis(rows) ==
    IF rows = <<>> THEN <<>> ELSE <<Diagnosis(Head(rows))>> \o MapDiagnosis(Tail(rows))

get_differential_diagnoses(table, initial_diagnosis_) ==
    MapDiagnosis(OrderByLevel(
        SelectSeq(table, LAMBDA row : Like(row.level_0_info, initial_diagnosis_))))

(***************************************************************************)
(* get_next_question.                                                      *)
(***************************************************************************)
\* The first loop: stops at the first eligible 'condition' node, collects
\* the other eligible nodes of the next level in possible_questions.
RECURSIVE scan_diagnoses(_, _, _, _, _)
scan_diagnoses(diagnoses, i, next_level, previous_answer, possible_questions) ==
    IF i > Len(diagnoses)
    THEN [returned |-> FALSE, value |-> None, possible_questions |-> possible_questions]
    ELSE LET diagnosis == diagnoses[i]
         IN  IF /\ diagnosis.level = next_level
                /\ (previous_answer = None \/ diagnosis.type = previous_answer)
             THEN IF diagnosis.type = "condition"
                  THEN [returned |-> TRUE, value |-> diagnosis.value,
                        possible_questions |-> possible_questions]
                  ELSE IF diagnosis.level = next_level
                  THEN scan_diagnoses(diagnoses, i + 1, next_level, previous_answer,
                                      Append(possible_questions, diagnosis))
                  ELSE scan_diagnoses(diagnoses, i + 1, next_level, previous_answer,
                                      possible_questions)
             ELSE scan_diagnoses(diagnoses, i + 1, next_level, previous_answer,
                                 possible_questions)

\* The second loop returning the first collected node, whatever its type.
prioritize_any_kind(possible_questions, i) ==
    IF i > Len(possible_questions) THEN [returned |-> FALSE, value |-> None]
    ELSE [returned |-> TRUE, value |-> possible_questions[i].value]

\* The second loop ("Prioritize questions").
RECURSIVE prioritize(_, _)
prioritize(possible_questions, i) ==
    IF i > Len(possible_questions) THEN [returned |-> FALSE, value |-> None]
    ELSE IF possible_questions[i].type = "condition"
    THEN [returned |-> TRUE, value |-> possible_questions[i].value]
    ELSE prioritize(possible_questions, i + 1)

\* get_next_question with the test on previous_answer left out.
get_next_question_any_answer(diagnoses, current_level_, previous_answer) ==
    LET next_level == current_level_ + 1
        scan == scan_diagnoses(diagnoses, 1, next_level, None, <<>>)
    IN  IF scan.returned THEN <<scan.value, next_level>> ELSE <<None, current_level_>>

\* The result is <<next question, level>>.
get_next_question(diagnoses, current_level_, previous_answer) ==
    LET next_level == current_level_ + 1
        scan == scan_diagnoses(diagnoses, 1, next_level, previous_answer, <<>>)
        prio == prioritize(scan.possible_questions, 1)
    IN  IF scan.returned THEN <<scan.value, next_level>>
        ELSE IF prio.returned THEN <<prio.value, next_level>>
        ELSE <<None, current_level_>>

(***************************************************************************)
(* askLLM: the request handler, one step per action.                       *)
(***************************************************************************)
Faults == {"none", "no_input", "connect", "similar_case", "icd11", "differential",
           "null_history"}

\* confidence_threshold=0.7 in the call of get_similar_case
AskThreshold == <<7, 10>>

\* A response: the HTTP status, the keys of the JSON body and their values
\* (a key that is absent holds its default here).
NoBody == [status |-> 500, keys |-> {}, output_string |-> <<>>, match_type |-> None,
           icd11_codes |-> <<>>, similar_case |-> <<>>, next_question |-> None,
           current_level |-> -1, final_diagnosis |-> None,
           differential_diagnoses |-> <<>>]

\* The unhandled exception leaves askLLM: the caller gets no JSON body.
ExceptionResponse == NoBody

\* jsonify({"error": "Missing 'input_string' parameter"}), 400
MissingInputResponse == [NoBody EXCEPT !.status = 400, !.keys = {"error"}]

MatchResponse(r, code_data) ==
    [NoBody EXCEPT !.status = 200,
                   !.keys = {"output_string", "icd11_codes", "match_type"},
                   !.output_string = initial_diagnosis[r],
                   !.icd11_codes = <<code_data>>,
                   !.match_type = "ICD11_match"]

SimilarCaseResponse(r) ==
    [NoBody EXCEPT !.status = 200,
                   !.keys = {"output_string", "similar_case", "icd11_codes"},
                   !.output_string = initial_diagnosis[r],
                   !.similar_case = similar_case[r],
                   !.icd11_codes = icd11_codes_similar[r]]

FinalResponse(r, diagnosis_value) ==
    [NoBody EXCEPT !.status = 200,
                   !.keys = {"output_string", "final_diagnosis",
                             "differential_diagnoses", "icd11_codes"},
                   !.output_string = initial_diagnosis[r],
                   !.final_diagnosis = diagnosis_value,
                   !.differential_diagnoses = differential_diagnoses[r],
                   !.icd11_codes = icd11_codes[r]]

QuestionResponse(r) ==
    [NoBody EXCEPT !.status = 200,
                   !.keys = {"output_string", "next_question", "current_level",
                             "differential_diagnoses", "icd11_codes"},
                   !.output_string = initial_diagnosis[r],
                   !.next_question = next_question[r],
                   !.current_level = current_level[r],
                   !.differential_diagnoses = differential_diagnoses[r],
                   !.icd11_codes = icd11_codes[r]]

\* `if conn: conn.close()`
CloseIfOpen(c) == IF c = "open" THEN "closed" ELSE c

\* The perfect-match test written with == instead of `in`.
ExactMatchIndexEquality(codes, initial_diagnosis_) ==
    LET hits == {i \in 1..Len(codes) : codes[i].code = initial_diagnosis_}
    IN  IF hits = {} THEN 0 ELSE Min(hits)

\* "Check for perfect ICD-11 code match": the position of the first fetched
\* record whose code is in initial_diagnosis, 0 when there is none.
ExactMatchIndex(codes, initial_diagnosis_) ==
    LET hits == {i \in 1..Len(codes) : Contains(initial_diagnosis_, codes[i].code)}
    IN  IF hits = {} THEN 0 ELSE Min(hits)

\* The corpus kept in one place for all requests: the rows of request 1.
CorpusOfFirstRequest(r) == get_differential_diagnoses(DiagnosisData, initial_diagnosis[1])

\* The corpus request r traverses: the rows its own query returns.
CorpusFor(r) == get_differential_diagnoses(DiagnosisData, initial_diagnosis[r])

\* The level kept in a module-level variable that no request resets.
InitialLevelKept(r) == current_level[1]

\* The questioning started one level down.
InitialLevelOne(r) == 1

\* `current_level = 0`, a local of the activation
InitialLevel(r) == 0

\* The replay loop without its break.
ReplayNeverBreaks(question) == FALSE

\* `if next_question is None: break`
ReplayBreaks(question) == question = None

\* The final diagnosis looked up among the 'condition' nodes only.
FinalDiagnosisConditionOnly(diagnoses, level) ==
    LET below == {i \in 1..Len(diagnoses) :
                     diagnoses[i].level = level + 1 /\ diagnoses[i].type = "condition"}
    IN  IF below = {} THEN None ELSE diagnoses[Min(below)].value

\* "If no more questions, get the final diagnosis": the value of the first
\* node of the level below, None when there is none.
FinalDiagnosis(diagnoses, level) ==
    LET below == {i \in 1..Len(diagnoses) : diagnoses[i].level = level + 1}
    IN  IF below = {} THEN None ELSE diagnoses[Min(below)].value

Answer(r, resp) ==
    /\ response' = [response EXCEPT ![r] = <<resp>>]
    /\ pc' = [pc EXCEPT ![r] = "done"]

Receive(r) ==
    /\ pc[r] = "recv"
    /\ IF fault[r] = "no_input"
       THEN Answer(r, MissingInputResponse)
       ELSE /\ pc' = [pc EXCEPT ![r] = "connect"]
            /\ UNCHANGED response
    /\ UNCHANGED <<dbVars, upsertVars, pureVars, crawlVars, active, input_string, previous_answers,
                   fault, initial_diagnosis, conn, similar_case, similar_case_bound,
                   icd11_codes, icd11_codes_similar, differential_diagnoses,
                   current_level, next_question, final_diagnosis, idx, calls, queried>>

\* pyodbc.connect; when it raises, the except block of askLLM runs.
Connect(r) ==
    /\ pc[r] = "connect"
    /\ IF fault[r] = "connect"
       THEN /\ conn' = [conn EXCEPT ![r] = None]
            /\ differential_diagnoses' = [differential_diagnoses EXCEPT ![r] = <<>>]
            /\ icd11_codes' = [icd11_codes EXCEPT ![r] = <<>>]
            /\ icd11_codes_similar' = [icd11_codes_similar EXCEPT ![r] = <<>>]
            /\ pc' = [pc EXCEPT ![r] = "questioning"]
       ELSE /\ conn' = [conn EXCEPT ![r] = "open"]
            /\ pc' = [pc EXCEPT ![r] = "similar"]
            /\ UNCHANGED <<differential_diagnoses, icd11_codes, icd11_codes_similar>>
    /\ UNCHANGED <<dbVars, upsertVars, pureVars, crawlVars, active, input_string, previous_answers,
                   fault, initial_diagnosis, similar_case, similar_case_bound,
                   current_level, next_question, final_diagnosis, idx, response,
                   calls, queried>>

\* similar_case = get_similar_case(conn, input_string, confidence_threshold=0.7)
GetSimilarCase(r) ==
    /\ pc[r] = "similar"
    /\ similar_case' = [similar_case EXCEPT ![r] =
            IF fault[r] = "similar_case" THEN <<>>
            ELSE get_similar_case(DSM5_Cases, input_string[r], AskThreshold)]
    /\ similar_case_bound' = [similar_case_bound EXCEPT ![r] = TRUE]
    /\ pc' = [pc EXCEPT ![r] = "icd"]
    /\ UNCHANGED <<dbVars, upsertVars, pureVars, crawlVars, active, input_string, previous_answers,
                   fault, initial_diagnosis, conn, icd11_codes, icd11_codes_similar,
                   differential_diagnoses, current_level, next_question,
                   final_diagnosis, idx, response, calls, queried>>

\* icd11_codes = get_icd11_codes(conn, initial_diagnosis): the first query of
\* ICD11_Codes; `else: icd11_codes_similar = []` when there is no similar case
GetIcd11Codes(r) ==
    /\ pc[r] = "icd"
    /\ icd11_codes' = [icd11_codes EXCEPT ![r] =
            IF fault[r] = "icd11" THEN <<>>
            ELSE get_icd11_codes(ICD11_Codes, initial_diagnosis[r])]
    /\ IF similar_case[r] # <<>>
       THEN /\ pc' = [pc EXCEPT ![r] = "icd_similar"]
            /\ UNCHANGED icd11_codes_similar
       ELSE /\ icd11_codes_similar' = [icd11_codes_similar EXCEPT ![r] = <<>>]
            /\ pc' = [pc EXCEPT ![r] = "exact"]
    /\ UNCHANGED <<dbVars, upsertVars, pureVars, crawlVars, active, input_string, previous_answers,
                   fault, initial_diagnosis, conn, similar_case, similar_case_bound,
                   differential_diagnoses, current_level, next_question,
                   final_diagnosis, idx, response, calls, queried>>

\* icd11_codes_similar = get_icd11_codes(conn, similar_case["Diagnosis"]): a
\* second query, of the table as it is committed by then
GetIcd11CodesSimilar(r) ==
    /\ pc[r] = "icd_similar"
    /\ icd11_codes_similar' = [icd11_codes_similar EXCEPT ![r] =
            IF fault[r] = "icd11" THEN <<>>
            ELSE get_icd11_codes(ICD11_Codes, similar_case[r][1].Diagnosis)]
    /\ pc' = [pc EXCEPT ![r] = "exact"]
    /\ UNCHANGED <<dbVars, upsertVars, pureVars, crawlVars, active, input_string, previous_answers,
                   fault, initial_diagnosis, conn, similar_case, similar_case_bound,
                   icd11_codes, differential_diagnoses, current_level, next_question,
                   final_diagnosis, idx, response, calls, queried>>

\* the loop over icd11_codes: return on the first perfect match
CheckExactMatch(r) ==
    /\ pc[r] = "exact"
    /\ LET hit == ExactMatchIndex(icd11_codes[r], initial_diagnosis[r])
       IN  IF hit # 0
           THEN /\ conn' = [conn EXCEPT ![r] = "closed"]
                /\ Answer(r, MatchResponse(r, icd11_codes[r][hit]))
           ELSE /\ pc' = [pc EXCEPT ![r] = "differential"]
                /\ UNCHANGED <<conn, response>>
    /\ UNCHANGED <<dbVars, upsertVars, pureVars, crawlVars, active, input_string, previous_answers,
                   fault, initial_diagnosis, similar_case, similar_case_bound,
                   icd11_codes, icd11_codes_similar, differential_diagnoses,
                   current_level, next_question, final_diagnosis, idx, calls, queried>>

GetDifferentialDiagnoses(r) ==
    /\ pc[r] = "differential"
    /\ differential_diagnoses' = [differential_diagnoses EXCEPT ![r] =
            IF fault[r] = "differential" THEN <<>> ELSE CorpusFor(r)]
    /\ queried' = [queried EXCEPT ![r] = TRUE]
    /\ pc' = [pc EXCEPT ![r] = "questioning"]
    /\ UNCHANGED <<dbVars, upsertVars, pureVars, crawlVars, active, input_string, previous_answers,
                   fault, initial_diagnosis, conn, similar_case, similar_case_bound,
                   icd11_codes, icd11_codes_similar, current_level, next_question,
                   final_diagnosis, idx, response, calls>>

\* "Start interactive questioning" up to the head of the replay loop.  After
\* a failed connect the except block has reset differential_diagnoses,
\* icd11_codes and icd11_codes_similar, and similar_case was never assigned:
\* `if similar_case:` raises UnboundLocalError.  A previous_answers that is
\* not iterable raises TypeError at the `for`.
StartQuestioning(r) ==
    /\ pc[r] = "questioning"
    /\ current_level' = [current_level EXCEPT ![r] = InitialLevel(r)]
    /\ final_diagnosis' = [final_diagnosis EXCEPT ![r] = None]
    /\ IF ~similar_case_bound[r]
       THEN /\ Answer(r, ExceptionResponse)
            /\ UNCHANGED <<conn, idx>>
       ELSE IF similar_case[r] # <<>>
       THEN /\ conn' = [conn EXCEPT ![r] = CloseIfOpen(conn[r])]
            /\ Answer(r, SimilarCaseResponse(r))
            /\ UNCHANGED idx
       ELSE IF fault[r] = "null_history"
       THEN /\ Answer(r, ExceptionResponse)
            /\ UNCHANGED <<conn, idx>>
       ELSE /\ pc' = [pc EXCEPT ![r] =
                        IF previous_answers[r] = <<>> THEN "final_step" ELSE "replay"]
            /\ idx' = [idx EXCEPT ![r] = 1]
            /\ UNCHANGED <<conn, response>>
    /\ UNCHANGED <<dbVars, upsertVars, pureVars, crawlVars, active, input_string, previous_answers,
                   fault, initial_diagnosis, similar_case, similar_case_bound,
                   icd11_codes, icd11_codes_similar, differential_diagnoses,
                   next_question, calls, queried>>

\* one iteration of `for previous_answer in previous_answers`
ReplayStep(r) ==
    /\ pc[r] = "replay"
    /\ LET previous_answer == previous_answers[r][idx[r]]
           step == get_next_question(differential_diagnoses[r], current_level[r],
                                     previous_answer)
       IN  /\ next_question' = [next_question EXCEPT ![r] = step[1]]
           /\ current_level' = [current_level EXCEPT ![r] = step[2]]
           /\ calls' = [calls EXCEPT ![r] = Append(@, <<current_level[r], previous_answer>>)]
           /\ idx' = [idx EXCEPT ![r] = @ + 1]
           /\ pc' = [pc EXCEPT ![r] =
                       IF ReplayBreaks(step[1]) \/ idx[r] = Len(previous_answers[r])
                       THEN "final_step" ELSE "replay"]
    /\ UNCHANGED <<dbVars, upsertVars, pureVars, crawlVars, active, input_string, previous_answers,
                   fault, initial_diagnosis, conn, similar_case, similar_case_bound,
                   icd11_codes, icd11_codes_similar, differential_diagnoses,
                   final_diagnosis, response, queried>>

\* next_question, current_level = get_next_question(differential_diagnoses, current_level)
FinalStep(r) ==
    /\ pc[r] = "final_step"
    /\ LET step == get_next_question(differential_diagnoses[r], current_level[r], None)
       IN  /\ next_question' = [next_question EXCEPT ![r] = step[1]]
           /\ current_level' = [current_level EXCEPT ![r] = step[2]]
           /\ calls' = [calls EXCEPT ![r] = Append(@, <<current_level[r], None>>)]
    /\ pc' = [pc EXCEPT ![r] = "respond"]
    /\ UNCHANGED <<dbVars, upsertVars, pureVars, crawlVars, active, input_string, previous_answers,
                   fault, initial_diagnosis, conn, similar_case, similar_case_bound,
                   icd11_codes, icd11_codes_similar, differential_diagnoses,
                   final_diagnosis, idx, response, queried>>

\* the final diagnosis or the next question
Respond(r) ==
    /\ pc[r] = "respond"
    /\ conn' = [conn EXCEPT ![r] = CloseIfOpen(conn[r])]
    /\ IF next_question[r] = None
       THEN LET found == FinalDiagnosis(differential_diagnoses[r], current_level[r])
            IN  /\ final_diagnosis' = [final_diagnosis EXCEPT ![r] = found]
                /\ Answer(r, FinalResponse(r, found))
       ELSE /\ Answer(r, QuestionResponse(r))
            /\ UNCHANGED final_diagnosis
    /\ UNCHANGED <<dbVars, upsertVars, pureVars, crawlVars, active, input_string, previous_answers,
                   fault, initial_diagnosis, similar_case, similar_case_bound,
                   icd11_codes, icd11_codes_similar, differential_diagnoses,
                   current_level, next_question, idx, calls, queried>>

NextAsk ==
    \E r \in Requests :
        \/ Receive(r)
        \/ Connect(r)
        \/ GetSimilarCase(r)
        \/ GetIcd11Codes(r)
        \/ GetIcd11CodesSimilar(r)
        \/ CheckExactMatch(r)
        \/ GetDifferentialDiagnoses(r)
        \/ StartQuestioning(r)
        \/ ReplayStep(r)
        \/ FinalStep(r)
        \/ Respond(r)

(***************************************************************************)
(* Initial states: the requests and database contents the service is       *)
(* checked on.                                                             *)
(***************************************************************************)
NodeKinds == {"yes", "no", "condition"}     \* the types parse_json_leaves stores
Answers == {"yes", "no", "condition", None} \* an element of previous_answers
Alphabet == {"A", "B"}

Texts(n) == SeqsUpTo(Alphabet, n)
Histories == SeqsUpTo(Answers, MaxAnswers)

Row(label, level, type, value) ==
    [level_0_info |-> label, level |-> level, type |-> type, value |-> value]

NonDecreasing(f, n) == \A i \in 1..n : \A j \in i..n : f[i] <= f[j]

\* Every table of at most MaxNodes rows of one topic, levels 1..MaxLevel in
\* the order of the level; row i holds the text "v<i>", at most one row NULL.
TraversalTables ==
    UNION {{[i \in 1..n |-> Row(<<"A">>, lv[i], ty[i],
                                IF i = nul THEN None ELSE "v" \o ToString(i))] :
               lv \in {f \in [1..n -> 1..MaxLevel] : NonDecreasing(f, n)},
               ty \in [1..n -> NodeKinds],
               nul \in 0..n} :
           n \in 0..MaxNodes}

\* The lookup scenarios: codes, inclusions, cases and candidate texts that
\* contain one another, and a table of three topics stored out of order.
CandidateTexts == {<<"A">>, <<"A", "B">>, <<"B">>}
\* Candidate texts that are patterns of their own, or differ in case only.
PatternTexts == {<<"a">>, <<"A", "_">>, <<"%">>, <<"[", "A", "]">>}
IcdRows == {[code |-> c, inclusions |-> i] :
               c \in {<<"A">>, <<"A", "B">>}, i \in {<<>>, <<"A", "B">>}}
IcdTables == {t \in SeqsUpTo(IcdRows, MaxCodes) :
                 \A i \in 1..Len(t) : \A j \in 1..Len(t) :
                     i # j => t[i].code # t[j].code}       \* code is the primary key
CaseTables(contents, n) ==
    {[i \in 1..Len(s) |-> [Case_Number |-> i, Introduction |-> s[i].Introduction,
                           Diagnosis |-> s[i].Diagnosis]] :
        s \in SeqsUpTo(contents, n)}
LookupCases == {[Introduction |-> <<"A", "B">>, Diagnosis |-> <<"A">>],
                [Introduction |-> <<"A">>, Diagnosis |-> <<"B">>]}
LookupInputs == {<<"A", "B">>, <<"B">>}
LookupTables ==
    {<<>>,
     <<Row(<<"A">>, 2, "yes", "v1"), Row(<<"B">>, 1, "condition", "v2"),
       Row(<<"A", "B">>, 1, "condition", "v3")>>}
LookupHistories == {<<>>, <<"condition">>}

Only(r, v, default) == [q \in Requests |-> IF q = r THEN v ELSE default]

IdlePure == call = <<>> /\ ret = <<>>
IdleCrawl ==
    /\ hierarchy = <<>> /\ stack = <<>> /\ results = <<>> /\ fetched = <<>>
    /\ previous_results = <<>>

\* The runs of write_dataframe_to_sql (Step 6 of "2. DBICD_processing.py"):
\* the second one writes the same records, and starts at any moment after
\* the first one started.
Writers == {1, 2}

IdleWriter ==
    [pc |-> "idle", table_exists |-> FALSE, i |-> 1, existing_row |-> <<>>,
     written |-> <<>>, after_first |-> FALSE, table_at_start |-> <<>>]

IdleUpsert ==
    /\ ICD11_Final_Data = [exists |-> FALSE, rows |-> <<>>]
    /\ writer = [w \in Writers |-> IdleWriter]

\* The locals of every activation before it starts.
FreshActivations ==
    /\ pc = [r \in Requests |-> IF r \in active THEN "recv" ELSE "idle"]
    /\ conn = [r \in Requests |-> "unset"]
    /\ similar_case = [r \in Requests |-> <<>>]
    /\ similar_case_bound = [r \in Requests |-> FALSE]
    /\ icd11_codes = [r \in Requests |-> <<>>]
    /\ icd11_codes_similar = [r \in Requests |-> <<>>]
    /\ differential_diagnoses = [r \in Requests |-> <<>>]
    /\ current_level = [r \in Requests |-> 0]
    /\ next_question = [r \in Requests |-> None]
    /\ final_diagnosis = [r \in Requests |-> None]
    /\ idx = [r \in Requests |-> 0]
    /\ response = [r \in Requests |-> <<>>]
    /\ calls = [r \in Requests |-> <<>>]
    /\ queried = [r \in Requests |-> FALSE]

\* One request over every small decision table and answer history.
InitTraversal ==
    /\ DiagnosisData \in TraversalTables
    /\ ICD11_Codes = <<>>
    /\ DSM5_Cases = <<>>
    /\ input_string = Only(1, <<"A">>, <<>>)
    /\ initial_diagnosis = Only(1, <<"A">>, <<>>)
    /\ \E h \in Histories : previous_answers = Only(1, h, <<>>)
    /\ fault = Only(1, "none", "none")

\* One request over the lookup scenarios, with and without a fault.
InitLookup ==
    /\ DiagnosisData \in LookupTables
    /\ ICD11_Codes \in IcdTables
    /\ DSM5_Cases \in CaseTables(LookupCases, MaxCases)
    /\ \E t \in LookupInputs : input_string = Only(1, t, <<>>)
    /\ \E t \in CandidateTexts \cup PatternTexts : initial_diagnosis = Only(1, t, <<>>)
    /\ \E h \in LookupHistories : previous_answers = Only(1, h, <<>>)
    /\ \E f \in Faults : fault = Only(1, f, "none")

\* Two requests served at once over one database.
ConcTables ==
    {<<Row(<<"A">>, 2, "yes", "v1"), Row(<<"B">>, 1, "condition", "v2"),
       Row(<<"A", "B">>, 1, "condition", "v3")>>,
     <<Row(<<"A">>, 1, "condition", "v1"), Row(<<"A">>, 2, "condition", "v2"),
       Row(<<"B">>, 1, "yes", "v3")>>}
ConcHistories == {<<>>, <<"condition">>, <<"yes", "condition">>}
ConcFaults == {"none", "connect"}

InitConc ==
    /\ active = Requests
    /\ DiagnosisData \in ConcTables
    /\ ICD11_Codes \in {<<>>, <<[code |-> <<"A", "B">>, inclusions |-> <<>>]>>}
    /\ DSM5_Cases \in CaseTables({[Introduction |-> <<"A", "B">>, Diagnosis |-> <<"A">>]}, 1)
    /\ input_string \in [Requests -> LookupInputs]
    /\ initial_diagnosis \in [Requests -> CandidateTexts]
    /\ previous_answers \in [Requests -> ConcHistories]
    /\ fault \in [Requests -> ConcFaults]
    /\ FreshActivations
    /\ IdlePure
    /\ IdleCrawl
    /\ IdleUpsert

\* One request served while main of "1. DBicddownloader.py" is about to
\* insert a batch of crawled entries into ICD11_Codes on its own connection.
WriterTables == {<<>>, <<[code |-> <<"A", "B">>, inclusions |-> <<>>]>>}
WriterBatches ==
    {<<[code |-> <<"A">>, inclusions |-> <<>>]>>,
     <<[code |-> <<"A">>, inclusions |-> <<"A", "B">>],
       [code |-> <<"A", "B">>, inclusions |-> <<>>]>>}

InitBesideWriter ==
    /\ DiagnosisData \in LookupTables
    /\ ICD11_Codes \in WriterTables
    /\ DSM5_Cases \in CaseTables(LookupCases, 1)
    /\ \E t \in LookupInputs : input_string = Only(1, t, <<>>)
    /\ \E t \in CandidateTexts : initial_diagnosis = Only(1, t, <<>>)
    /\ \E h \in LookupHistories : previous_answers = Only(1, h, <<>>)
    /\ fault = Only(1, "none", "none")
    /\ \E data \in WriterBatches : call = [fn |-> "insert_data_into_table", data |-> data]
    /\ ret = <<>>

Init ==
    /\ active = {1}
    /\ \/ (InitTraversal \/ InitLookup) /\ IdlePure
       \/ InitBesideWriter
    /\ FreshActivations
    /\ IdleCrawl
    /\ IdleUpsert

Next == NextAsk

SpecConc == InitConc /\ [][Next]_vars

(***************************************************************************)
(* get_next_question and get_similar_case applied to drawn arguments.      *)
(***************************************************************************)
NoRequests ==
    /\ active = {}
    /\ ICD11_Codes = <<>> /\ DSM5_Cases = <<>> /\ DiagnosisData = <<>>
    /\ input_string = [r \in Requests |-> <<>>]
    /\ initial_diagnosis = [r \in Requests |-> <<>>]
    /\ previous_answers = [r \in Requests |-> <<>>]
    /\ fault = [r \in Requests |-> "none"]
    /\ FreshActivations

InitNQ ==
    /\ \E t \in TraversalTables : \E l \in 0..MaxLevel : \E a \in Answers :
          call = [fn |-> "get_next_question", diagnoses |-> MapDiagnosis(t),
                  current_level |-> l, previous_answer |-> a]
    /\ ret = <<>>
    /\ NoRequests
    /\ IdleCrawl
    /\ IdleUpsert

CallGetNextQuestion ==
    /\ call # <<>> /\ call.fn = "get_next_question" /\ ret = <<>>
    /\ ret' = <<get_next_question(call.diagnoses, call.current_level,
                                  call.previous_answer)>>
    /\ UNCHANGED <<dbVars, upsertVars, askVars, crawlVars, call>>

SpecNQ == InitNQ /\ [][CallGetNextQuestion]_vars

\* thresholds tried: 0, 1/2, the service's 7/10, and 1
Thresholds == {<<0, 1>>, <<1, 2>>, AskThreshold, <<1, 1>>}
SimilarityCases == {[Introduction |-> t, Diagnosis |-> <<"A">>] : t \in Texts(MaxTextLen)}

InitSimilar ==
    /\ \E c \in CaseTables(SimilarityCases, MaxCases) :
       \E d \in Texts(MaxTextLen) : \E t \in Thresholds :
          call = [fn |-> "get_similar_case", cases |-> c, case_description |-> d,
                  confidence_threshold |-> t]
    /\ ret = <<>>
    /\ NoRequests
    /\ IdleCrawl
    /\ IdleUpsert

CallGetSimilarCase ==
    /\ call # <<>> /\ call.fn = "get_similar_case" /\ ret = <<>>
    /\ ret' = <<get_similar_case(call.cases, call.case_description,
                                 call.confidence_threshold)>>
    /\ UNCHANGED <<dbVars, upsertVars, askVars, crawlVars, call>>

SpecSimilar == InitSimilar /\ [][CallGetSimilarCase]_vars

(***************************************************************************)
(* retrieve_code: the recursive crawl of the hierarchy, as a stack of      *)
(* activations.  A node is fetched by its identifier (the trailing path    *)
(* segment of the child reference, put into BASE_URI_TEMPLATE); the reply  *)
(* of node n is hierarchy[n]: whether the fetch succeeds, and the JSON     *)
(* fields classKind, code and child (has_code, has_child: the field is     *)
(* present).                                                               *)
(***************************************************************************)
ClassKinds == {"category", "block"}
RootNode == 1

\* A record is made for every category, with or without children.
IsCategory(data) == data.classKind = "category"

\* `data.get('classKind') == 'category' and 'child' not in data`
IsLeafCategory(data) == data.classKind = "category" /\ ~data.has_child

\* str.replace(old, new) for a one-character old
replace(text, old, new) == [i \in 1..Len(text) |-> IF text[i] = old THEN new ELSE text[i]]

\* data.get('code', ''): the code of the reply, '' for a reply without one
get_code(data) == IF data.has_code THEN data.code ELSE <<>>

\* The entry carries the position of its node in the visiting order.
EntryWithPosition(data) ==
    [code |-> Append(replace(get_code(data), ";", "~"), ToString(Len(fetched)))]

\* the entry appended to results: 'code': data.get('code', '').replace(";", "~")
\* (title, definition, longdefinition, inclusions, exclusions and
\* diagnosticCriteria, built the same way, are not modelled)
Entry(data) == [code |-> replace(get_code(data), ";", "~")]

Top == stack[Len(stack)]
Pop == SubSeq(stack, 1, Len(stack) - 1)

\* The exception of a fetch is not caught: it ends the whole crawl.
OnFetchErrorAbort == <<>>

\* `except Exception as e: print(...); return`: the activation of the node
\* returns to its caller, which goes on with its next child
OnFetchError == Pop

\* session.get ... response.json(), the leaf test and the head of the loop
\* over data['child']
CrawlFetch ==
    /\ stack # <<>> /\ Top.next = 0
    /\ LET data == hierarchy[Top.node]
       IN  /\ fetched' = Append(fetched, Top.node)
           /\ IF ~data.ok
              THEN /\ stack' = OnFetchError
                   /\ UNCHANGED results
              ELSE /\ results' = IF IsLeafCategory(data)
                                 THEN Append(results, Entry(data)) ELSE results
                   /\ stack' = IF data.has_child /\ data.child # <<>>
                               THEN [stack EXCEPT ![Len(stack)].next = 1]
                               ELSE Pop
    /\ UNCHANGED <<dbVars, upsertVars, askVars, pureVars, hierarchy, previous_results>>

\* The children taken from the end of the child list.
child_uri_reversed(data, i) == data.child[Len(data.child) + 1 - i]

\* `for child in data['child']`: the node the i-th child reference names
child_uri(data, i) == data.child[i]

\* retrieve_code(child_uri, session, results) for the next child
CrawlDescend ==
    /\ stack # <<>> /\ Top.next >= 1
    /\ Top.next <= Len(hierarchy[Top.node].child)
    /\ stack' = Append([stack EXCEPT ![Len(stack)].next = @ + 1],
                       [node |-> child_uri(hierarchy[Top.node], Top.next), next |-> 0])
    /\ UNCHANGED <<dbVars, upsertVars, askVars, pureVars, hierarchy, results, fetched,
                   previous_results>>

\* the loop over the children is over: the activation returns
CrawlReturn ==
    /\ stack # <<>> /\ Top.next >= 1
    /\ Top.next > Len(hierarchy[Top.node].child)
    /\ stack' = Pop
    /\ UNCHANGED <<dbVars, upsertVars, askVars, pureVars, hierarchy, results, fetched,
                   previous_results>>

RECURSIVE Reverse(_)
Reverse(s) == IF s = <<>> THEN <<>> ELSE Append(Reverse(Tail(s)), Head(s))

\* main() once more against the same hierarchy: a fresh results list and
\* retrieve_code(ROOT_URI, session, results).  The replies are the same but for
\* the order in which the nodes of rev list their children.
CrawlAgain ==
    /\ stack = <<>> /\ hierarchy # <<>> /\ previous_results = <<>>
    /\ previous_results' = <<results>>
    /\ results' = <<>>
    /\ fetched' = <<>>
    /\ stack' = <<[node |-> RootNode, next |-> 0]>>
    /\ \E rev \in SUBSET {k \in DOMAIN hierarchy : Len(hierarchy[k].child) >= 2} :
          hierarchy' = [k \in DOMAIN hierarchy |->
                           IF k \in rev
                           THEN [hierarchy[k] EXCEPT !.child = Reverse(@)]
                           ELSE hierarchy[k]]
    /\ UNCHANGED <<dbVars, upsertVars, askVars, pureVars>>

NextCrawl == CrawlFetch \/ CrawlDescend \/ CrawlReturn \/ CrawlAgain

\* The trees of n nodes: node 1 is the root, the parent of a node has a
\* smaller identifier, children are listed in ascending or descending order.
Parents(n) == {p \in [1..n -> 0..(n - 1)] : p[1] = 0 /\ \A k \in 2..n : 1 <= p[k] /\ p[k] < k}

RECURSIVE Ascending(_)
Ascending(S) == IF S = {} THEN <<>> ELSE <<Min(S)>> \o Ascending(S \ {Min(S)})

RECURSIVE Descending(_)
Descending(S) == IF S = {} THEN <<>> ELSE <<Max(S)>> \o Descending(S \ {Max(S)})

ChildrenOf(p, n, k) == {c \in 1..n : p[c] = k}

\* The code of node k: the codes of the even nodes hold a ';' (the reply of
\* node 3 has no code field).
Code(k) == IF k % 2 = 0 THEN <<"c", ";", ToString(k)>> ELSE <<"c", ToString(k)>>

\* The reply of node k in the tree p of n nodes: the fetch of node bad fails,
\* the childless nodes in empty carry an empty child field, down lists the
\* children in descending order.
Reply(p, n, k, kind, bad, empty, down) ==
    [ok |-> k # bad,
     classKind |-> kind[k],
     has_code |-> k # 3,
     code |-> Code(k),
     has_child |-> ChildrenOf(p, n, k) # {} \/ k \in empty,
     child |-> IF down THEN Descending(ChildrenOf(p, n, k))
                       ELSE Ascending(ChildrenOf(p, n, k))]

\* Every tree of at most MaxTreeNodes nodes, with at most one failing fetch.
InitCrawl ==
    /\ \E n \in 1..MaxTreeNodes : \E p \in Parents(n) :
       \E kind \in [1..n -> ClassKinds] : \E bad \in 0..n :
       \E empty \in SUBSET {k \in 1..n : ChildrenOf(p, n, k) = {}} :
       \E down \in BOOLEAN :
          hierarchy = [k \in 1..n |-> Reply(p, n, k, kind, bad, empty, down)]
    /\ stack = <<[node |-> RootNode, next |-> 0]>>
    /\ results = <<>>
    /\ fetched = <<>>
    /\ previous_results = <<>>
    /\ NoRequests
    /\ IdlePure
    /\ IdleUpsert

SpecCrawl == InitCrawl /\ [][NextCrawl]_vars

\* The acyclic hierarchies of n nodes: every node but the root is listed as
\* a child by one or more nodes of smaller identifier.
ParentSets(n) ==
    {ps \in [2..n -> SUBSET (1..(n - 1))] : \A k \in 2..n : ps[k] # {} /\ ps[k] \subseteq 1..(k - 1)}

ListedBy(ps, n, k) == {c \in 2..n : k \in ps[c]}

DagReply(ps, n, k, bad, down) ==
    [ok |-> k # bad,
     classKind |-> "category",
     has_code |-> k # 3,
     code |-> Code(k),
     has_child |-> ListedBy(ps, n, k) # {},
     child |-> IF down THEN Descending(ListedBy(ps, n, k))
                       ELSE Ascending(ListedBy(ps, n, k))]

\* Every acyclic hierarchy of at most MaxDagNodes nodes, with at most one
\* failing fetch.
InitCrawlDag ==
    /\ \E n \in 1..MaxDagNodes : \E ps \in ParentSets(n) :
       \E bad \in 0..n : \E down \in BOOLEAN :
          hierarchy = [k \in 1..n |-> DagReply(ps, n, k, bad, down)]
    /\ stack = <<[node |-> RootNode, next |-> 0]>>
    /\ results = <<>>
    /\ fetched = <<>>
    /\ previous_results = <<>>
    /\ NoRequests
    /\ IdlePure
    /\ IdleUpsert

\* main() runs retrieve_code to its end: a step that can be taken is taken.
SpecCrawlDag == InitCrawlDag /\ [][NextCrawl]_vars /\ WF_vars(NextCrawl)

(***************************************************************************)
(* ICD_processing.py, Step 4: the text of the pages is split at the        *)
(* disorder codes and regrouped into one description per code.  A text is  *)
(* a sequence of characters.                                               *)
(***************************************************************************)
WordChars == {"6", "A", "0", "1", "f", "o", "b", "a", "r", "z"}
CodeLetters == {"A", "B", "C", "D", "E"}
Whitespace == {" ", "\n", "\t"}

\* code_pattern = r'(6[A-E]\w{2}(?:\.\w)?)': the length of its match at
\* position i of s, 0 when it does not match there
MatchLen(s, i) ==
    IF /\ i + 3 <= Len(s)
       /\ s[i] = "6" /\ s[i + 1] \in CodeLetters
       /\ s[i + 2] \in WordChars /\ s[i + 3] \in WordChars
    THEN IF i + 5 <= Len(s) /\ s[i + 4] = "." /\ s[i + 5] \in WordChars
         THEN 6 ELSE 4
    ELSE 0

\* re.split(code_pattern, s) from position i, the current piece starting at
\* start: the pieces between the matches and, the pattern being one group,
\* the matches themselves
RECURSIVE re_split(_, _, _)
re_split(s, i, start) ==
    IF i > Len(s) THEN <<SubSeq(s, start, Len(s))>>
    ELSE IF MatchLen(s, i) > 0
    THEN <<SubSeq(s, start, i - 1), SubSeq(s, i, i + MatchLen(s, i) - 1)>>
             \o re_split(s, i + MatchLen(s, i), i + MatchLen(s, i))
    ELSE re_split(s, i + 1, start)

\* str.strip()
RECURSIVE strip(_)
strip(s) ==
    IF s = <<>> THEN s
    ELSE IF Head(s) \in Whitespace THEN strip(Tail(s))
    ELSE IF s[Len(s)] \in Whitespace THEN strip(SubSeq(s, 1, Len(s) - 1))
    ELSE s

\* [part.strip() for part in re.split(code_pattern, content) if part.strip()]
RECURSIVE strip_parts(_)
strip_parts(pieces) ==
    IF pieces = <<>> THEN <<>>
    ELSE (IF strip(Head(pieces)) # <<>> THEN <<strip(Head(pieces))>> ELSE <<>>)
             \o strip_parts(Tail(pieces))

parts(content) == strip_parts(re_split(content, 1, 1))

\* the loop over the pages: one record per part, in page order
RECURSIVE records(_)
records(pages) ==
    IF pages = <<>> THEN <<>> ELSE parts(Head(pages)) \o records(Tail(pages))

\* The filter on the length left out: every part is kept.
AnyLength(part) == TRUE

\* split_df[split_df['content'].str.len() >= 3].reset_index(drop=True)
LongEnough(part) == Len(part) >= 3
split_df(pages) == SelectSeq(records(pages), LongEnough)

\* str.contains(code_pattern): the pattern matches somewhere in the text
contains_code(text) == \E i \in 1..Len(text) : MatchLen(text, i) > 0

\* the index of the rows that hold a code, ascending
RECURSIVE code_indexes_from(_, _)
code_indexes_from(df, i) ==
    IF i > Len(df) THEN <<>>
    ELSE (IF contains_code(df[i]) THEN <<i>> ELSE <<>>) \o code_indexes_from(df, i + 1)

code_indexes(df) == code_indexes_from(df, 1)

\* ' '.join(texts)
RECURSIVE join(_)
join(texts) ==
    IF texts = <<>> THEN <<>>
    ELSE IF Len(texts) = 1 THEN texts[1]
    ELSE texts[1] \o <<" ">> \o join(Tail(texts))

\* A slice that leaves out its last row.
loc_exclusive(df, first, last) == SubSeq(df, first, last - 1)

\* split_df.loc[first:last, 'content'].tolist(): the rows labelled first to
\* last, both included
loc(df, first, last) == SubSeq(df, first, last)

\* The description of a code starts at the row of the code.
description_content_from_code(df, indexes, i) ==
    IF i = Len(indexes)
    THEN join(loc(df, indexes[i], Len(df)))
    ELSE join(loc(df, indexes[i], indexes[i + 1] - 1))

\* the body of the loop over code_indexes: the text that follows the code up
\* to the next code, or up to the end for the last code
description_content(df, indexes, i) ==
    IF i = Len(indexes)
    THEN join(loc(df, indexes[i] + 1, Len(df)))
    ELSE join(loc(df, indexes[i] + 1, indexes[i + 1] - 1))

\* result_df: one row (codice, content) per detected code; split_df has no
\* 'content' column, and the script stops with KeyError, when no page gave
\* any part
result_df(pages) ==
    IF records(pages) = <<>> THEN [raised |-> "KeyError", rows |-> <<>>]
    ELSE LET df == split_df(pages)
             indexes == code_indexes(df)
         IN  [raised |-> None,
              rows |-> [i \in 1..Len(indexes) |->
                           [codice |-> df[indexes[i]],
                            content |-> description_content(df, indexes, i)]]]

\* The pieces pages are made of: a code, the suffix that makes the longer
\* form of a code, a blank, a word, the head of a code, a page break.
PageBreak == <<"\f">>
Chunks ==
    {<<"6", "A", "0", "0">>, <<".", "1">>, <<" ">>, <<"f", "o", "o">>, <<"6", "A">>,
     PageBreak}

\* the pages of a sequence of chunks
RECURSIVE PagesOf(_, _)
PagesOf(chunks, page) ==
    IF chunks = <<>> THEN <<page>>
    ELSE IF Head(chunks) = PageBreak THEN <<page>> \o PagesOf(Tail(chunks), <<>>)
    ELSE PagesOf(Tail(chunks), page \o Head(chunks))

\* "6A00.0 foo bar 6A01 baz"
ExamplePage ==
    <<"6", "A", "0", "0", ".", "0", " ", "f", "o", "o", " ", "b", "a", "r", " ",
      "6", "A", "0", "1", " ", "b", "a", "z">>

\* "foo 6A00 foo" and "foo 6A01.1 foo": text before the first code and a
\* description that runs over the page break
TwoPages ==
    <<<<"f", "o", "o", " ", "6", "A", "0", "0", " ", "f", "o", "o">>,
      <<"f", "o", "o", " ", "6", "A", "0", "1", ".", "1", " ", "f", "o", "o">>>>

InitSegment ==
    /\ \/ \E n \in 0..MaxChunks : \E chunks \in [1..n -> Chunks] :
             call = [fn |-> "result_df", pages |-> PagesOf(chunks, <<>>)]
       \/ call = [fn |-> "result_df", pages |-> <<ExamplePage>>]
       \/ call = [fn |-> "result_df", pages |-> TwoPages]
    /\ ret = <<>>
    /\ NoRequests
    /\ IdleCrawl
    /\ IdleUpsert

CallResultDf ==
    /\ call # <<>> /\ call.fn = "result_df" /\ ret = <<>>
    /\ ret' = <<result_df(call.pages)>>
    /\ UNCHANGED <<dbVars, upsertVars, askVars, crawlVars, call>>

SpecSegment == InitSegment /\ [][CallResultDf]_vars

(***************************************************************************)
(* The fusion of the hierarchy entities with the text segments:            *)
(* ICD_processing.py, Steps 1, 2 and 5 (DataFrame merges), and main of     *)
(* 2. DBICD_processing.py, Steps 4 and 5 (SQL join, longest prompt of a    *)
(* code).  A code is a sequence of characters; the other texts are         *)
(* strings; a NaN or NULL field is <<>> and a text field is <<text>>.      *)
(***************************************************************************)
Null == <<>>

\* the string of a sequence of characters
RECURSIVE Flatten(_)
Flatten(chars) == IF chars = <<>> THEN "" ELSE Head(chars) \o Flatten(Tail(chars))

\* str.startswith('6') and LIKE '6%'
StartsWith6(code) == code # <<>> /\ code[1] = "6"

\* ISNULL(value, '')
ISNULL(value) == IF value = Null THEN "" ELSE value[1]

\* df_csv[df_csv['codice'].str.startswith('6')]
filtered_df(df_csv) == SelectSeq(df_csv, LAMBDA row : StartsWith6(row.code))

\* create_prompt of ICD_processing.py
create_prompt(row) ==
    (IF row.definition # Null
     THEN "Disorder Name: " \o row.title \o "\n" \o
          "Disorder Code: " \o Flatten(row.code) \o "\n" \o
          "Disorder symptoms: " \o row.definition[1] \o "\n"
     ELSE "") \o
    (IF row.inclusions # Null
     THEN "If you have " \o row.inclusions[1] \o " other inclusions could be: "
              \o row.inclusions[1] \o "\n"
     ELSE "") \o
    (IF row.exclusions # Null
     THEN "If you diagnose this disease exclude: " \o row.exclusions[1]
     ELSE "")

\* dataframe_to_prompts(filtered_df): one row (codice, nome, prompt) per row
prompts_df(df) ==
    [i \in 1..Len(df) |->
        [code |-> df[i].code, name |-> df[i].title, prompt |-> create_prompt(df[i])]]

\* the rows of right whose key is the key of the left row, in their order
RECURSIVE MatchesOf(_, _)
MatchesOf(code, right) ==
    IF right = <<>> THEN <<>>
    ELSE (IF Head(right).code = code THEN <<Head(right)>> ELSE <<>>)
             \o MatchesOf(code, Tail(right))

\* one row of filtered_df.merge(result_df, ...)
WithContent(row, segment) ==
    [code |-> row.code, title |-> row.title, content |-> <<segment.content>>]

\* one row of (...).merge(prompts_df, ...)
WithPrompt(row, prompt_row) ==
    [code |-> row.code, title |-> row.title, content |-> row.content,
     prompt |-> prompt_row.prompt]

\* left.merge(result_df, on="codice", how="inner"): one row per pair of a left
\* and a right row with the same code, in the order of the left rows
RECURSIVE merge_result_df(_, _)
merge_result_df(left, right) ==
    IF left = <<>> THEN <<>>
    ELSE LET found == MatchesOf(Head(left).code, right)
         IN  [k \in 1..Len(found) |-> WithContent(Head(left), found[k])]
                 \o merge_result_df(Tail(left), right)

\* left.merge(prompts_df, on="codice", how="inner")
RECURSIVE merge_prompts_df(_, _)
merge_prompts_df(left, right) ==
    IF left = <<>> THEN <<>>
    ELSE LET found == MatchesOf(Head(left).code, right)
         IN  [k \in 1..Len(found) |-> WithPrompt(Head(left), found[k])]
                 \o merge_prompts_df(Tail(left), right)

\* filtered_df.merge(result_df, ...).merge(prompts_df, ...)
final_join_merge(df_csv, segments) ==
    merge_prompts_df(merge_result_df(filtered_df(df_csv), segments),
                     prompts_df(filtered_df(df_csv)))

\* the prompt column of join_query; '\\n' in the Python text of the query is
\* the two characters backslash and n
sql_prompt(c, content) ==
    "Disorder Name: " \o c.title \o "\\n" \o
    "Disorder Code: " \o Flatten(c.code) \o "\\n" \o
    "Disorder symptoms: " \o ISNULL(c.definition) \o "\\n" \o
    "If you have " \o ISNULL(c.inclusions) \o " other inclusions could be: "
        \o ISNULL(c.inclusions) \o "\\n" \o
    "If you diagnose this disease exclude: " \o ISNULL(c.exclusions) \o "\\n" \o
    ISNULL(content)

\* join_query: ICD11_Codes c LEFT JOIN ICD11_PDF_Content p ON c.code = p.code
\* WHERE c.code LIKE '6%'
RECURSIVE join_query(_, _)
join_query(codes, pdf_content) ==
    IF codes = <<>> THEN <<>>
    ELSE LET c == Head(codes)
             found == MatchesOf(c.code, pdf_content)
         IN  (IF ~StartsWith6(c.code) THEN <<>>
              ELSE IF found = <<>>
              THEN <<[code |-> c.code, title |-> c.title, content |-> Null,
                      prompt |-> sql_prompt(c, Null)]>>
              ELSE [k \in 1..Len(found) |->
                       [code |-> c.code, title |-> c.title,
                        content |-> <<found[k].content>>,
                        prompt |-> sql_prompt(c, <<found[k].content>>)]])
                 \o join_query(Tail(codes), pdf_content)

\* The rows of a code with the shortest prompt.
shortest_prompt(rows, code) ==
    {i \in 1..Len(rows) :
        /\ rows[i].code = code
        /\ \A j \in 1..Len(rows) :
              rows[j].code = code => Len(rows[i].prompt) <= Len(rows[j].prompt)}

\* x.str.len().idxmax() for the group of a code: the first row of maximum
\* prompt length; the query has no ORDER BY, so the server may return the
\* rows of the group in any order and any row of maximum length can be first
longest_prompt(rows, code) ==
    {i \in 1..Len(rows) :
        /\ rows[i].code = code
        /\ \A j \in 1..Len(rows) :
              rows[j].code = code => Len(rows[j].prompt) <= Len(rows[i].prompt)}

\* the order of the characters of the codes
CharOrder == <<".", "0", "1", "6", "7", "A", "B">>
Rank(c) == CHOOSE i \in 1..Len(CharOrder) : CharOrder[i] = c

RECURSIVE CodeLess(_, _)
CodeLess(a, b) ==
    IF b = <<>> THEN FALSE
    ELSE IF a = <<>> THEN TRUE
    ELSE IF Head(a) # Head(b) THEN Rank(Head(a)) < Rank(Head(b))
    ELSE CodeLess(Tail(a), Tail(b))

\* groupby("code"): the group keys, sorted
RECURSIVE SortedCodes(_)
SortedCodes(S) ==
    IF S = {} THEN <<>>
    ELSE LET least == CHOOSE c \in S : \A d \in S \ {c} : CodeLess(c, d)
         IN  <<least>> \o SortedCodes(S \ {least})

CodesOf(rows) == {rows[i].code : i \in 1..Len(rows)}

\* final_join_df.loc[idx].reset_index(drop=True) for the row chosen (idx)
\* per code
final_join_df(rows, chosen) ==
    LET keys == SortedCodes(CodesOf(rows))
    IN  [k \in 1..Len(keys) |-> rows[chosen[keys[k]]]]

\* The inputs of the fusion.
EntityCodes == {<<"6", "A", "0", "0">>, <<"6", "A", "0", "1">>, <<"7", "A", "0", "0">>}
SegmentCodes == {<<"6", "A", "0", "0">>, <<"6", "B", "0", "0">>}
Body10 == "0123456789"
Body10b == "abcdefghij"
Body50 == "01234567890123456789012345678901234567890123456789"
Entities ==
    [code : EntityCodes, title : {"t"}, definition : {Null, <<"d">>},
     inclusions : {Null}, exclusions : {Null}]
Segments == [code : SegmentCodes, content : {Body10, Body10b, Body50}]

UniqueCodes(rows) ==
    \A i \in 1..Len(rows) : \A j \in 1..Len(rows) : rows[i].code = rows[j].code => i = j

\* ICD11_Codes has the code as its primary key; the CSV may repeat a code.
InitFuse ==
    /\ \E n \in 0..MaxEntities : \E entities \in [1..n -> Entities] :
       \E m \in 0..MaxSegments : \E segments \in [1..m -> Segments] :
          \/ call = [fn |-> "merge", entities |-> entities, segments |-> segments]
          \/ /\ UniqueCodes(entities)
             /\ call = [fn |-> "main", entities |-> entities, segments |-> segments]
    /\ ret = <<>>
    /\ NoRequests
    /\ IdleCrawl
    /\ IdleUpsert

\* ICD_processing.py, Step 5
CallMerge ==
    /\ call # <<>> /\ call.fn = "merge" /\ ret = <<>>
    /\ ret' = <<final_join_merge(call.entities, call.segments)>>
    /\ UNCHANGED <<dbVars, upsertVars, askVars, crawlVars, call>>

\* main of 2. DBICD_processing.py, Steps 4 and 5
CallMain ==
    /\ call # <<>> /\ call.fn = "main" /\ ret = <<>>
    /\ LET rows == join_query(call.entities, call.segments)
       IN  \E chosen \in [CodesOf(rows) -> 1..Len(rows)] :
              /\ \A code \in CodesOf(rows) : chosen[code] \in longest_prompt(rows, code)
              /\ ret' = <<final_join_df(rows, chosen)>>
    /\ UNCHANGED <<dbVars, upsertVars, askVars, crawlVars, call>>

NextFuse == CallMerge \/ CallMain

SpecFuse == InitFuse /\ [][NextFuse]_vars

(***************************************************************************)
(* parse_json_leaves of 5. DifferentialDiagnosisTreeReader.py.  A JSON     *)
(* document is the sequence of its values in document order: node 1 is the *)
(* root, a node names its parent, its kind (scalar, dict, list), the key   *)
(* under which it stands when its parent is a dict, and its scalar value.  *)
(* A key is a sequence of characters.                                      *)
(***************************************************************************)
JsonKinds == {"scalar", "dict", "list"}
NoKey == <<"-">>

\* str.lower() on the characters of the keys
LowerChar(c) ==
    CASE c = "Y" -> "y" [] c = "E" -> "e" [] c = "S" -> "s" [] c = "N" -> "n"
      [] c = "O" -> "o" [] c = "Q" -> "q" [] OTHER -> c

lower(key) == [i \in 1..Len(key) |-> LowerChar(key[i])]

\* "no" is looked for before "yes".
type_str_no_first(key) ==
    IF Contains(lower(key), <<"n", "o">>) THEN "no"
    ELSE IF Contains(lower(key), <<"y", "e", "s">>) THEN "yes" ELSE "condition"

\* "yes" if "yes" in key.lower() else "no" if "no" in key.lower() else "condition"
type_str(key) ==
    IF Contains(lower(key), <<"y", "e", "s">>) THEN "yes"
    ELSE IF Contains(lower(key), <<"n", "o">>) THEN "no" ELSE "condition"

\* The leaf names its own key as its parent.
leaf_data_own_key(level, key, value, parent_condition) ==
    [level |-> level, type |-> type_str(key), value |-> value,
     parent_condition |-> key]

\* leaf_data: the dictionary appended for a key whose value is a scalar
leaf_data(level, key, value, parent_condition) ==
    [level |-> level, type |-> type_str(key), value |-> value,
     parent_condition |-> parent_condition]

\* Only a dict counts as nested.
is_nested_dict_only(node) == node.kind = "dict"

\* isinstance(value, (dict, list))
is_nested(node) == node.kind \in {"dict", "list"}

\* the values directly inside node k, in document order
RECURSIVE ChildrenFrom(_, _, _)
ChildrenFrom(doc, k, c) ==
    IF c > Len(doc) THEN <<>>
    ELSE (IF doc[c].parent = k THEN <<c>> ELSE <<>>) \o ChildrenFrom(doc, k, c + 1)

Children(doc, k) == ChildrenFrom(doc, k, k + 1)

\* parse_json_leaves(json_data, level, parent_condition) for the value at
\* node k.  The keys of a loaded document are strings, so key.lower() cannot
\* raise and the except branch is never taken.
RECURSIVE parse_json_leaves(_, _, _, _)
RECURSIVE parse_items(_, _, _, _, _)
parse_items(doc, k, items, level, parent_condition) ==
    IF items = <<>> THEN <<>>
    ELSE LET c == Head(items)
             first ==
                 IF doc[k].kind = "dict"
                 THEN IF is_nested(doc[c])
                      THEN parse_json_leaves(doc, c, level + 1, doc[c].key)
                      ELSE <<leaf_data(level, doc[c].key, doc[c].value, parent_condition)>>
                 ELSE parse_json_leaves(doc, c, level + 1, parent_condition)
         IN  first \o parse_items(doc, k, Tail(items), level, parent_condition)

parse_json_leaves(doc, k, level, parent_condition) ==
    IF doc[k].kind \in {"dict", "list"}
    THEN parse_items(doc, k, Children(doc, k), level, parent_condition)
    ELSE <<>>

\* The documents: the keys of a dict are distinct, a new value stands in a
\* container that is still open in document order.
DocKeys == {<<"Q", "1">>, <<"y", "e", "s">>, <<"n", "o">>}

RECURSIVE OpenNodes(_, _)
OpenNodes(doc, k) == IF k = 0 THEN {} ELSE {k} \cup OpenNodes(doc, doc[k].parent)

UsedKeys(doc, p) == {doc[c].key : c \in {d \in 1..Len(doc) : doc[d].parent = p}}

JsonNode(parent, kind, key, k) ==
    [parent |-> parent, kind |-> kind, key |-> key,
     value |-> IF kind = "scalar" THEN "v" \o ToString(k) ELSE None]

Extensions(doc) ==
    UNION {
        {JsonNode(p, kind, key, Len(doc) + 1) :
            kind \in JsonKinds,
            key \in IF doc[p].kind = "dict" THEN DocKeys \ UsedKeys(doc, p) ELSE {NoKey}} :
        p \in {q \in OpenNodes(doc, Len(doc)) : doc[q].kind \in {"dict", "list"}}}

RECURSIVE DocsFrom(_, _)
DocsFrom(doc, n) ==
    {doc} \cup
    (IF Len(doc) >= n THEN {}
     ELSE UNION {DocsFrom(Append(doc, node), n) : node \in Extensions(doc)})

Docs(n) == UNION {DocsFrom(<<JsonNode(0, kind, NoKey, 1)>>, n) : kind \in JsonKinds}

\* {Q1: {yes: diagnosisA, no: {Q2: {yes: diagnosisB}}}}
ExampleDoc ==
    <<[parent |-> 0, kind |-> "dict", key |-> NoKey, value |-> None],
      [parent |-> 1, kind |-> "dict", key |-> <<"Q", "1">>, value |-> None],
      [parent |-> 2, kind |-> "scalar", key |-> <<"y", "e", "s">>, value |-> "diagnosisA"],
      [parent |-> 2, kind |-> "dict", key |-> <<"n", "o">>, value |-> None],
      [parent |-> 4, kind |-> "dict", key |-> <<"Q", "2">>, value |-> None],
      [parent |-> 5, kind |-> "scalar", key |-> <<"y", "e", "s">>, value |-> "diagnosisB"]>>

InitParse ==
    /\ \/ \E doc \in Docs(MaxDocNodes) : call = [fn |-> "parse_json_leaves", doc |-> doc]
       \/ call = [fn |-> "parse_json_leaves", doc |-> ExampleDoc]
    /\ ret = <<>>
    /\ NoRequests
    /\ IdleCrawl
    /\ IdleUpsert

\* leaf_data_list = parse_json_leaves(json_data)
CallParseJsonLeaves ==
    /\ call # <<>> /\ call.fn = "parse_json_leaves" /\ ret = <<>>
    /\ ret' = <<parse_json_leaves(call.doc, 1, 0, None)>>
    /\ UNCHANGED <<dbVars, upsertVars, askVars, crawlVars, call>>

SpecParse == InitParse /\ [][CallParseJsonLeaves]_vars

\* The documents {key: scalar} for every key of up to MaxKeyLen characters.
KeyAlphabet == {"y", "e", "s", "n", "o", "Y", "N"}

InitKeys ==
    /\ \E n \in 0..MaxKeyLen : \E key \in [1..n -> KeyAlphabet] :
          call = [fn |-> "parse_json_leaves",
                  doc |-> <<JsonNode(0, "dict", NoKey, 1), JsonNode(1, "scalar", key, 2)>>]
    /\ ret = <<>>
    /\ NoRequests
    /\ IdleCrawl
    /\ IdleUpsert

SpecKeys == InitKeys /\ [][CallParseJsonLeaves]_vars

(***************************************************************************)
(* write_dataframe_to_sql ("2. DBICD_processing.py"): the upsert of the    *)
(* fused records into ICD11_Final_Data.  A row is [code, prompt]; a field  *)
(* is Null or <<text>>.  The function commits after CREATE TABLE and after *)
(* every INSERT and UPDATE, so the table it leaves between two statements  *)
(* is visible to every other connection: each statement is a step of its   *)
(* own, and two runs of the pipeline's Step 6 may overlap.                 *)
(***************************************************************************)
Columns == {"code", "prompt"}

\* Python str() of a field read from the table or from the DataFrame.
str(value) == IF value = Null THEN "None" ELSE value[1]

\* cursor.execute(select_sql, (row['code'],)): the positions of the stored
\* rows with that code.
select_rows(table, code) == {j \in 1..Len(table) : table[j].code = code}

\* The comparison left out: a stored row is always taken as different.
same_data_never(existing_data, row) == FALSE

\* the loop over df.columns that sets same_data
same_data(existing_data, row) ==
    \A col \in Columns : str(existing_data[col]) = str(row[col])

\* UPDATE ... SET every column WHERE code = ?
update_rows(table, row) ==
    [i \in 1..Len(table) |-> IF table[i].code = row.code THEN row ELSE table[i]]

FinalCodes == {"6A00", "6A01"}
FinalPrompts == {Null, <<"None">>, <<"p">>}
FinalRows == {[code |-> <<c>>, prompt |-> p] : c \in FinalCodes, p \in FinalPrompts}

UniqueFinalCodes(rows) ==
    \A i \in 1..Len(rows) : \A j \in 1..Len(rows) : i # j => rows[i].code # rows[j].code

\* Every table and every DataFrame of at most MaxRows rows with unique codes.
InitUpsert ==
    /\ \E n \in 0..MaxRows : \E m \in 0..MaxRows :
       \E table \in {t \in [1..n -> FinalRows] : UniqueFinalCodes(t)} :
       \E df \in {d \in [1..m -> FinalRows] : UniqueFinalCodes(d)} :
       \E table_exists \in BOOLEAN :
          /\ ~table_exists => table = <<>>
          /\ call = [fn |-> "write_dataframe_to_sql", table_exists |-> table_exists,
                     table |-> table, df |-> df]
          /\ ICD11_Final_Data = [exists |-> table_exists, rows |-> table]
    /\ writer = [w \in Writers |-> IdleWriter]
    /\ ret = <<>>
    /\ NoRequests
    /\ IdleCrawl

\* `for _, row in df.iterrows()`: the next row, or the end of the function
LoopAt(df, i) == IF i > Len(df) THEN "done" ELSE "select"

\* pyodbc.connect and the query of INFORMATION_SCHEMA.TABLES.  after_first
\* and table_at_start are history: whether the first run had returned, and
\* the rows stored, when this run started.
CheckTable(w) ==
    /\ call # <<>> /\ call.fn = "write_dataframe_to_sql"
    /\ writer[w].pc = "idle"
    /\ w = 2 => writer[1].pc # "idle"
    /\ writer' = [writer EXCEPT ![w] =
          [@ EXCEPT !.table_exists = ICD11_Final_Data.exists,
                    !.pc = IF ICD11_Final_Data.exists THEN LoopAt(call.df, 1) ELSE "create",
                    !.after_first = (w = 2 /\ writer[1].pc = "done"),
                    !.table_at_start = ICD11_Final_Data.rows]]
    /\ UNCHANGED <<dbVars, askVars, pureVars, crawlVars, ICD11_Final_Data>>

\* `if not table_exists`: CREATE TABLE and commit; the statement raises when
\* another run created the table since the check.
CreateTable(w) ==
    /\ writer[w].pc = "create"
    /\ IF ICD11_Final_Data.exists
       THEN /\ writer' = [writer EXCEPT ![w].pc = "raised"]
            /\ UNCHANGED ICD11_Final_Data
       ELSE /\ ICD11_Final_Data' = [exists |-> TRUE, rows |-> <<>>]
            /\ writer' = [writer EXCEPT ![w].pc = LoopAt(call.df, 1)]
    /\ UNCHANGED <<dbVars, askVars, pureVars, crawlVars>>

\* cursor.execute(select_sql, ...); existing_row = cursor.fetchone(): one of
\* the committed rows with the code (the query has no ORDER BY), <<>> for None.
SelectRow(w) ==
    /\ writer[w].pc = "select"
    /\ LET hits == select_rows(ICD11_Final_Data.rows, call.df[writer[w].i].code)
       IN  \E existing_row \in IF hits = {} THEN {<<>>}
                               ELSE {<<ICD11_Final_Data.rows[j]>> : j \in hits} :
              writer' = [writer EXCEPT ![w] =
                            [@ EXCEPT !.existing_row = existing_row, !.pc = "write"]]
    /\ UNCHANGED <<dbVars, askVars, pureVars, crawlVars, ICD11_Final_Data>>

\* The statement the rest of the iteration runs for the row fetched.
Statement(existing_row, row) ==
    IF existing_row # <<>>
    THEN IF ~same_data(existing_row[1], row) THEN "UPDATE" ELSE "NONE"
    ELSE "INSERT"

\* `if existing_row: ... else: ...`: the UPDATE or the INSERT on the table
\* as it is now, and its commit; nothing when the data is the same.
WriteRow(w) ==
    /\ writer[w].pc = "write"
    /\ LET row == call.df[writer[w].i]
           statement == Statement(writer[w].existing_row, row)
           next == [writer[w] EXCEPT !.i = @ + 1, !.existing_row = <<>>,
                                     !.pc = LoopAt(call.df, writer[w].i + 1)]
       IN  /\ ICD11_Final_Data' =
                 [ICD11_Final_Data EXCEPT !.rows =
                     CASE statement = "UPDATE" -> update_rows(@, row)
                       [] statement = "INSERT" -> Append(@, row)
                       [] OTHER -> @]
           /\ writer' = [writer EXCEPT ![w] =
                 IF statement = "NONE" THEN next
                 ELSE [next EXCEPT !.written = Append(@, <<statement, row.code>>)]]
    /\ UNCHANGED <<dbVars, askVars, pureVars, crawlVars>>

\* `except Exception as e: print(...); raise`: the SELECT, the INSERT or the
\* UPDATE raises; the rows committed before it stay, the rest is not written.
RaiseInRow(w) ==
    /\ \/ writer[w].pc = "select"
       \/ /\ writer[w].pc = "write"
          /\ Statement(writer[w].existing_row, call.df[writer[w].i]) # "NONE"
    /\ writer' = [writer EXCEPT ![w].pc = "raised"]
    /\ UNCHANGED <<dbVars, askVars, pureVars, crawlVars, ICD11_Final_Data>>

NextUpsert ==
    \E w \in Writers :
        CheckTable(w) \/ CreateTable(w) \/ SelectRow(w) \/ WriteRow(w) \/ RaiseInRow(w)

SpecUpsert == InitUpsert /\ [][NextUpsert]_vars

(***************************************************************************)
(* The loaders and their transactions.  A connection (autocommit off) is   *)
(* [committed, uncommitted]: the rows of the table and the rows inserted   *)
(* since the last commit or rollback.                                      *)
(***************************************************************************)
\* The rollback left out: the rows inserted so far stay in the transaction.
rollback_nothing(state) == state

\* conn.rollback()
rollback(state) == [state EXCEPT !.uncommitted = <<>>]

\* conn.commit()
commit(state) ==
    [state EXCEPT !.committed = state.committed \o state.uncommitted,
                  !.uncommitted = <<>>]

(***************************************************************************)
(* main and process_json_file of 5. DifferentialDiagnosisTreeReader.py.    *)
(* A file is what reading it gives (outcome), the leaves parse_json_leaves *)
(* returns for it, the INSERT that raises (fail_at, 0 for none) and        *)
(* whether the commit raises.                                              *)
(***************************************************************************)
\* the loop over leaf_data_list from its i-th leaf on, and the commit
RECURSIVE insert_leaves(_, _, _)
insert_leaves(state, file, i) ==
    IF i > Len(file.leaves)
    THEN IF file.commit_fails THEN rollback(state) ELSE commit(state)
    ELSE IF file.fail_at = i THEN rollback(state)
    ELSE insert_leaves(
             [state EXCEPT !.uncommitted =
                 Append(@, Row(file.level_0_info, file.leaves[i].level,
                               file.leaves[i].type, file.leaves[i].value))],
             file, i + 1)

process_json_file(state, file) ==
    IF file.outcome \in {"FileNotFoundError", "JSONDecodeError"} THEN state
    ELSE IF file.leaves = <<>> THEN state
    ELSE insert_leaves(state, file, 1)

\* The leaves of a document of n leaves.
Leaves(n) ==
    [i \in 1..n |-> [level |-> i, type |-> IF i = 1 THEN "condition" ELSE "yes",
                     value |-> "v" \o ToString(i)]]

FileKinds ==
    {[outcome |-> o, n |-> 0, fail_at |-> 0, commit_fails |-> FALSE] :
        o \in {"FileNotFoundError", "JSONDecodeError"}}
    \cup {[outcome |-> "ok", n |-> n, fail_at |-> 0, commit_fails |-> c] :
             n \in 0..MaxLeaves, c \in BOOLEAN}
    \cup {[outcome |-> "ok", n |-> n, fail_at |-> k, commit_fails |-> FALSE] :
             n \in 1..MaxLeaves, k \in 1..MaxLeaves}

\* the k-th file of the folder; its name gives level_0_info
TreeFile(k, kind) ==
    [level_0_info |-> <<ToString(k)>>, outcome |-> kind.outcome,
     leaves |-> Leaves(kind.n), fail_at |-> kind.fail_at,
     commit_fails |-> kind.commit_fails]

\* Every folder of at most MaxFiles files, DiagnosisData empty or left by an
\* earlier run.
InitTreeReader ==
    /\ \E m \in 0..MaxFiles : \E kinds \in [1..m -> FileKinds] :
          /\ \A k \in 1..m : kinds[k].fail_at <= kinds[k].n
          /\ call = [fn |-> "tree_reader_main",
                     files |-> [k \in 1..m |-> TreeFile(k, kinds[k])]]
    /\ ret = <<>>
    /\ DiagnosisData \in {<<>>, <<Row(<<"0">>, 1, "condition", "v0")>>}
    /\ ICD11_Codes = <<>> /\ DSM5_Cases = <<>>
    /\ active = {}
    /\ input_string = [r \in Requests |-> <<>>]
    /\ initial_diagnosis = [r \in Requests |-> <<>>]
    /\ previous_answers = [r \in Requests |-> <<>>]
    /\ fault = [r \in Requests |-> "none"]
    /\ FreshActivations
    /\ IdleCrawl
    /\ IdleUpsert

\* main: DROP TABLE DiagnosisData, CREATE TABLE DiagnosisData, both committed
DropAndCreateTable ==
    /\ call # <<>> /\ call.fn = "tree_reader_main" /\ ret = <<>>
    /\ DiagnosisData' = <<>>
    /\ ret' = <<[next |-> 1, uncommitted |-> <<>>]>>
    /\ UNCHANGED <<ICD11_Codes, DSM5_Cases, upsertVars, askVars, crawlVars, call>>

\* main: process_json_file(file_path, level_0_info, conn) for the next file
ProcessJsonFile ==
    /\ call # <<>> /\ call.fn = "tree_reader_main" /\ ret # <<>>
    /\ ret[1].next <= Len(call.files)
    /\ LET after == process_json_file(
                        [committed |-> DiagnosisData, uncommitted |-> ret[1].uncommitted],
                        call.files[ret[1].next])
       IN  /\ DiagnosisData' = after.committed
           /\ ret' = <<[next |-> ret[1].next + 1, uncommitted |-> after.uncommitted]>>
    /\ UNCHANGED <<ICD11_Codes, DSM5_Cases, upsertVars, askVars, crawlVars, call>>

NextTreeReader == DropAndCreateTable \/ ProcessJsonFile

\* main runs its loop over the files to the end.
SpecTreeReader ==
    InitTreeReader /\ [][NextTreeReader]_vars /\ WF_vars(NextTreeReader)

(***************************************************************************)
(* insert_data_into_table of 1. DBicddownloader.py: the crawled entries    *)
(* are inserted into ICD11_Codes, whose primary key is the code.           *)
(***************************************************************************)
\* cursor.execute(sql, ...) raises pyodbc.Error (IntegrityError): the table
\* or the open transaction holds a row with the code
PrimaryKeyViolation(state, row) ==
    \/ \E i \in 1..Len(state.committed) : state.committed[i].code = row.code
    \/ \E i \in 1..Len(state.uncommitted) : state.uncommitted[i].code = row.code

\* the loop over data from its i-th row on, and the commit that follows it;
\* raised collects the rows whose INSERT raised
RECURSIVE insert_rows(_, _, _)
insert_rows(state, data, i) ==
    IF i > Len(data) THEN commit(state)
    ELSE IF PrimaryKeyViolation(state, data[i])
    THEN insert_rows([rollback(state) EXCEPT !.raised = @ \cup {i}], data, i + 1)
    ELSE insert_rows([state EXCEPT !.uncommitted = Append(@, data[i])], data, i + 1)

insert_data_into_table(table, data) ==
    insert_rows([committed |-> table, uncommitted |-> <<>>, raised |-> {}], data, 1)

\* Every ICD11_Codes of at most MaxCodes rows and every batch of at most
\* MaxBatch entries.
InitInsert ==
    /\ ICD11_Codes \in IcdTables
    /\ \E n \in 0..MaxBatch : \E data \in [1..n -> IcdRows] :
          call = [fn |-> "insert_data_into_table", data |-> data]
    /\ ret = <<>>
    /\ DSM5_Cases = <<>> /\ DiagnosisData = <<>>
    /\ active = {}
    /\ input_string = [r \in Requests |-> <<>>]
    /\ initial_diagnosis = [r \in Requests |-> <<>>]
    /\ previous_answers = [r \in Requests |-> <<>>]
    /\ fault = [r \in Requests |-> "none"]
    /\ FreshActivations
    /\ IdleCrawl
    /\ IdleUpsert

\* main: insert_data_into_table(SQL_SERVER_CONNECTION_STRING, results)
InsertDataIntoTable ==
    /\ call # <<>> /\ call.fn = "insert_data_into_table" /\ ret = <<>>
    /\ LET after == insert_data_into_table(ICD11_Codes, call.data)
       IN  /\ ICD11_Codes' = after.committed
           /\ ret' = <<[raised |-> after.raised, uncommitted |-> after.uncommitted]>>
    /\ UNCHANGED <<DSM5_Cases, DiagnosisData, upsertVars, askVars, crawlVars, call>>

SpecInsert == InitInsert /\ [][InsertDataIntoTable]_vars

\* The service, and the crawler's insert into ICD11_Codes running beside it.
NextServed == NextAsk \/ InsertDataIntoTable

Spec == Init /\ [][NextServed]_vars

(***************************************************************************)
(* Properties of the traversal engine.                                     *)
(***************************************************************************)
FourShapes ==
    {{"output_string", "icd11_codes", "match_type"},
     {"output_string", "similar_case", "icd11_codes"},
     {"output_string", "next_question", "current_level", "differential_diagnoses",
      "icd11_codes"},
     {"output_string", "final_diagnosis", "differential_diagnoses", "icd11_codes"}}

IsMatchShape(resp) == resp.keys = {"output_string", "icd11_codes", "match_type"}
IsSimilarShape(resp) == resp.keys = {"output_string", "similar_case", "icd11_codes"}
IsFinalShape(resp) == "final_diagnosis" \in resp.keys
IsQuestionShape(resp) == "next_question" \in resp.keys

Answered(r) == pc[r] = "done" /\ response[r] # <<>>

\* The 'condition' nodes of level l + 1 that answer a lets through.
EligibleConditions(diagnoses, l, a) ==
    {i \in 1..Len(diagnoses) :
        /\ diagnoses[i].level = l + 1
        /\ diagnoses[i].type = "condition"
        /\ (a = None \/ diagnoses[i].type = a)}

\* C1: get_next_question(diagnoses, L, a) returns (value of the first eligible
\* 'condition' node of level L+1 in corpus order, L+1) when there is one, and
\* (None, L) otherwise.
C1_NextQuestion ==
    ret # <<>> =>
        LET e == EligibleConditions(call.diagnoses, call.current_level,
                                    call.previous_answer)
        IN  ret[1] = IF e # {}
                     THEN <<call.diagnoses[Min(e)].value, call.current_level + 1>>
                     ELSE <<None, call.current_level>>

\* Two eligible 'condition' nodes, the first one returned with the level advanced.
C1_Witness ==
    /\ ret # <<>>
    /\ call.previous_answer = "condition"
    /\ Cardinality(EligibleConditions(call.diagnoses, call.current_level,
                                      call.previous_answer)) >= 2
    /\ ret[1] = <<"v1", call.current_level + 1>>

\* The replay as a fold over the history: the level reached and the
\* transition steps taken, <<level, answer>> each.
RECURSIVE Replay(_, _, _, _)
Replay(diagnoses, history, i, level) ==
    IF i > Len(history) THEN [level |-> level, steps |-> <<>>]
    ELSE LET step == get_next_question(diagnoses, level, history[i])
         IN  IF step[1] = None
             THEN [level |-> step[2], steps |-> <<<<level, history[i]>>>>]
             ELSE LET rest == Replay(diagnoses, history, i + 1, step[2])
                  IN  [level |-> rest.level,
                       steps |-> <<<<level, history[i]>>>> \o rest.steps]

\* C2: askLLM replays previous_answers in order from level 0, one transition
\* step per prior answer, before the actual next step; a replay step that finds
\* no question ends the replay at the level reached and the remaining answers
\* are ignored.
C2_Replay ==
    \A r \in active :
        LET whole == Replay(differential_diagnoses[r], previous_answers[r], 1, 0)
        IN  /\ pc[r] = "replay" =>
                /\ idx[r] = Len(calls[r]) + 1
                /\ calls[r] = SubSeq(whole.steps, 1, Len(calls[r]))
            /\ pc[r] = "final_step" =>
                /\ calls[r] = whole.steps
                /\ current_level[r] = whole.level
            /\ pc[r] = "respond" =>
                calls[r] = Append(whole.steps, <<whole.level, None>>)

\* The first of two answers finds no question and the second, which would
\* have found one, is never replayed.
C2_Witness ==
    /\ pc[1] = "final_step"
    /\ Len(previous_answers[1]) = 2
    /\ Len(calls[1]) = 1
    /\ get_next_question(differential_diagnoses[1], current_level[1],
                         previous_answers[1][2])[1] # None

\* The fetched records whose code the candidate text contains.
FetchedMatches(r) ==
    {i \in 1..Len(icd11_codes[r]) :
        Contains(initial_diagnosis[r], icd11_codes[r][i].code)}

\* C3: when the candidate text contains the code of a fetched record, askLLM
\* answers with that record alone (match_type ICD11_match) and the decision
\* graph is not consulted: no get_differential_diagnoses, no transition step.
C3_ExactMatch ==
    \A r \in active :
        (FetchedMatches(r) # {} /\ pc[r] \notin {"recv", "connect", "similar", "icd", "icd_similar", "exact"}) =>
            /\ Answered(r)
            /\ response[r][1].status = 200
            /\ IsMatchShape(response[r][1])
            /\ response[r][1].match_type = "ICD11_match"
            /\ response[r][1].icd11_codes = <<icd11_codes[r][Min(FetchedMatches(r))]>>
            /\ calls[r] = <<>>
            /\ ~queried[r]
            /\ differential_diagnoses[r] = <<>>

\* A match on the second fetched record, for a request whose topic has a
\* decision graph and that carries an answer.
C3_Witness ==
    /\ Answered(1)
    /\ IsMatchShape(response[1][1])
    /\ Min(FetchedMatches(1)) = 2
    /\ CorpusFor(1) # <<>>
    /\ previous_answers[1] # <<>>

\* C4: get_similar_case returns a case of maximum ratio whenever that maximum
\* is >= the threshold, for every threshold in [0,1], and no case when every
\* ratio is below the threshold.
C4_SimilarCase ==
    ret # <<>> =>
        LET ratios == {ratio(call.case_description, call.cases[i].Introduction) :
                          i \in 1..Len(call.cases)}
            reached == {x \in ratios : RatioGE(x, call.confidence_threshold)}
        IN  IF reached # {}
            THEN /\ ret[1] # <<>>
                 /\ \A x \in ratios : RatioGE(ret[1][1].similarity, x)
                 /\ ret[1][1].similarity =
                        ratio(call.case_description, ret[1][1].Introduction)
            ELSE ret[1] = <<>>

\* C5: every response to a request with input_string has one of the four
\* shapes; an exact code match goes before a similar case, and a similar case
\* before the traversal.
C5_ResponseShapes ==
    \A r \in active :
        (Answered(r) /\ fault[r] # "no_input") =>
            /\ response[r][1].status = 200
            /\ response[r][1].keys \in FourShapes
            /\ FetchedMatches(r) # {} => IsMatchShape(response[r][1])
            /\ (FetchedMatches(r) = {} /\ similar_case[r] # <<>>) =>
                   (IsSimilarShape(response[r][1]) /\ calls[r] = <<>>)

\* C6 as claimed: the final diagnosis is the value of a 'condition' node of
\* level currentLevel+1 when there is one, and empty otherwise.
C6_ConditionNodeOnly ==
    \A r \in active :
        (Answered(r) /\ IsFinalShape(response[r][1])) =>
            LET e == EligibleConditions(differential_diagnoses[r], current_level[r], None)
            IN  IF e # {}
                THEN response[r][1].final_diagnosis \in
                        {differential_diagnoses[r][i].value : i \in e}
                ELSE response[r][1].final_diagnosis = None

\* C6 (amended): when the final transition step finds no question, the final
\* diagnosis is the value of the first node of level currentLevel+1 in corpus
\* order, whatever its kind, and None when no node has that level.
C6_FinalDiagnosis ==
    \A r \in active :
        (Answered(r) /\ IsFinalShape(response[r][1])) =>
            LET d == differential_diagnoses[r]
                below == {i \in 1..Len(d) : d[i].level = current_level[r] + 1}
            IN  /\ next_question[r] = None
                /\ below = {} => response[r][1].final_diagnosis = None
                /\ \A i \in below :
                      (\A j \in below : i <= j) =>
                          response[r][1].final_diagnosis = d[i].value
                /\ final_diagnosis[r] = response[r][1].final_diagnosis

\* After one replayed answer the final step finds no question and the
\* diagnosis reported is the text of a 'yes' node.
C6_Witness ==
    /\ Answered(1)
    /\ IsFinalShape(response[1][1])
    /\ current_level[1] = 1
    /\ response[1][1].final_diagnosis = "v2"
    /\ differential_diagnoses[1][2].type = "yes"

\* C7: whatever lookup fails, askLLM raises no exception and answers with a
\* well-formed response.
C7_NoException ==
    \A r \in active :
        Answered(r) => /\ response[r][1].status # 500
                       /\ response[r][1].keys # {}

\* The request has come out of its traversal.
Traversed(r) == pc[r] \in {"respond", "done"} /\ calls[r] # <<>>

\* C8: for the same decision graph and the same answer history the replay and
\* the transition step give the same (question, level) in every request that
\* makes them, and the graph a request traverses stays what its query returned.
C8_Determinism ==
    \A r1 \in active : \A r2 \in active :
        /\ (/\ Traversed(r1) /\ Traversed(r2)
            /\ differential_diagnoses[r1] = differential_diagnoses[r2]
            /\ previous_answers[r1] = previous_answers[r2])
           => /\ next_question[r1] = next_question[r2]
              /\ current_level[r1] = current_level[r2]
              /\ calls[r1] = calls[r2]
        /\ queried[r1] =>
              differential_diagnoses[r1] =
                  get_differential_diagnoses(DiagnosisData, initial_diagnosis[r1])

\* Two requests with the same history over the same graph, both through a
\* replayed answer and the final step, one already answered.
C8_Witness ==
    /\ Traversed(1) /\ Traversed(2)
    /\ pc[1] = "done" /\ pc[2] = "respond"
    /\ differential_diagnoses[1] = differential_diagnoses[2]
    /\ previous_answers[1] = <<"condition">>
    /\ previous_answers[2] = <<"condition">>
    /\ current_level[2] = 2

\* askLLM as one function of a request and the database.
AloneResponse(r) ==
    LET text == initial_diagnosis[r]
        found == get_similar_case(DSM5_Cases, input_string[r], AskThreshold)
        codes == get_icd11_codes(ICD11_Codes, text)
        codes_similar == IF found # <<>>
                         THEN get_icd11_codes(ICD11_Codes, found[1].Diagnosis) ELSE <<>>
        hits == {i \in 1..Len(codes) : Contains(text, codes[i].code)}
        graph == get_differential_diagnoses(DiagnosisData, text)
        replay == Replay(graph, previous_answers[r], 1, 0)
        last == get_next_question(graph, replay.level, None)
        below == {i \in 1..Len(graph) : graph[i].level = last[2] + 1}
    IN  IF fault[r] = "connect" THEN NoBody
        ELSE IF hits # {}
        THEN [NoBody EXCEPT !.status = 200,
                            !.keys = {"output_string", "icd11_codes", "match_type"},
                            !.output_string = text,
                            !.icd11_codes = <<codes[Min(hits)]>>,
                            !.match_type = "ICD11_match"]
        ELSE IF found # <<>>
        THEN [NoBody EXCEPT !.status = 200,
                            !.keys = {"output_string", "similar_case", "icd11_codes"},
                            !.output_string = text,
                            !.similar_case = found,
                            !.icd11_codes = codes_similar]
        ELSE IF last[1] = None
        THEN [NoBody EXCEPT !.status = 200,
                            !.keys = {"output_string", "final_diagnosis",
                                      "differential_diagnoses", "icd11_codes"},
                            !.output_string = text,
                            !.final_diagnosis =
                                IF below = {} THEN None ELSE graph[Min(below)].value,
                            !.differential_diagnoses = graph,
                            !.icd11_codes = codes]
        ELSE [NoBody EXCEPT !.status = 200,
                            !.keys = {"output_string", "next_question", "current_level",
                                      "differential_diagnoses", "icd11_codes"},
                            !.output_string = text,
                            !.next_question = last[1],
                            !.current_level = last[2],
                            !.differential_diagnoses = graph,
                            !.icd11_codes = codes]

AloneLevel(r) ==
    LET graph == get_differential_diagnoses(DiagnosisData, initial_diagnosis[r])
        replay == Replay(graph, previous_answers[r], 1, 0)
    IN  get_next_question(graph, replay.level, None)[2]

\* C9: under every interleaving of two requests, each request's currentLevel
\* and response are those it produces when served alone.
C9_Isolation ==
    \A r \in active :
        /\ Answered(r) => response[r][1] = AloneResponse(r)
        /\ Traversed(r) => current_level[r] = AloneLevel(r)

\* Both requests answered, with different candidate texts and histories, one
\* with a next question at level 2 and one with a final diagnosis.
C9_Witness ==
    /\ Answered(1) /\ Answered(2)
    /\ initial_diagnosis[1] # initial_diagnosis[2]
    /\ previous_answers[1] # previous_answers[2]
    /\ IsQuestionShape(response[1][1]) /\ response[1][1].current_level = 2
    /\ IsFinalShape(response[2][1]) /\ response[2][1].final_diagnosis # None

(***************************************************************************)
(* Properties of the crawler.                                              *)
(***************************************************************************)
Nodes == DOMAIN hierarchy
CrawlDone == stack = <<>>
AllFetchesSucceed == \A n \in Nodes : hierarchy[n].ok
\* The code under which node n is recorded: its code with every ';' turned
\* into '~', the empty text when its reply has none.
RecordedCode(n) ==
    IF hierarchy[n].has_code
    THEN [i \in 1..Len(hierarchy[n].code) |->
             IF hierarchy[n].code[i] = ";" THEN "~" ELSE hierarchy[n].code[i]]
    ELSE <<>>
RecordsOf(n) == {i \in 1..Len(results) : results[i].code = RecordedCode(n)}

\* C10: on a tree whose fetches all succeed, retrieve_code appends exactly one
\* record for each true leaf (no child field, classKind 'category') and no
\* record for a node that has a child field.
C10_LeafOnly ==
    (CrawlDone /\ AllFetchesSucceed) =>
        \A n \in Nodes :
            /\ (~hierarchy[n].has_child /\ hierarchy[n].classKind = "category")
                  => Cardinality(RecordsOf(n)) = 1
            /\ hierarchy[n].has_child => RecordsOf(n) = {}

\* A finished crawl of four nodes: a branch of kind category over a true
\* leaf, a leaf that is no category and a category whose child field is empty.
C10_Witness ==
    /\ CrawlDone /\ AllFetchesSucceed
    /\ Len(fetched) = 4
    /\ Len(results) = 1
    /\ \E n \in Nodes : ~hierarchy[n].has_child /\ hierarchy[n].classKind = "category"
    /\ hierarchy[RootNode].classKind = "category"
    /\ hierarchy[RootNode].child # <<>>
    /\ \E n \in Nodes : hierarchy[n].has_child /\ hierarchy[n].child = <<>>
                        /\ hierarchy[n].classKind = "category"
    /\ \E n \in Nodes : ~hierarchy[n].has_child /\ hierarchy[n].classKind = "block"

\* The nodes below n, through the child lists.
RECURSIVE Below(_)
Below(n) ==
    UNION {{hierarchy[n].child[i]} \cup Below(hierarchy[n].child[i]) :
              i \in 1..Len(hierarchy[n].child)}

FetchCount(n) == Cardinality({i \in 1..Len(fetched) : fetched[i] = n})
Failing == {n \in Nodes : ~hierarchy[n].ok}
Skipped == Failing \cup UNION {Below(n) : n \in Failing}

\* C11: a node whose fetch fails is fetched once and never again, no record is
\* made for it or for a node below it, nothing below it is fetched, and the
\* crawl goes on: when it ends every node outside the failing subtrees has
\* been fetched once and every leaf category among them has its record.
C11_FailureSkipsSubtree ==
    /\ \A n \in Failing :
          /\ FetchCount(n) <= 1
          /\ RecordsOf(n) = {}
          /\ \A d \in Below(n) : FetchCount(d) = 0 /\ RecordsOf(d) = {}
    /\ CrawlDone =>
          /\ \A n \in Failing :
                (\A m \in Failing : n \notin Below(m)) => FetchCount(n) = 1
          /\ \A n \in Nodes \ Skipped :
                /\ FetchCount(n) = 1
                /\ IsLeafCategory(hierarchy[n]) => Cardinality(RecordsOf(n)) = 1

\* A finished crawl in which the fetch of the root's first child failed: the
\* leaf category below it has no record, the sibling listed after it has one.
C11_Witness ==
    /\ CrawlDone
    /\ Len(hierarchy[RootNode].child) = 2
    /\ LET first == hierarchy[RootNode].child[1]
           second == hierarchy[RootNode].child[2]
       IN  /\ ~hierarchy[first].ok
           /\ \E d \in Below(first) : hierarchy[d].classKind = "category"
                                       /\ ~hierarchy[d].has_child
           /\ fetched = <<RootNode, first, second>>
           /\ results = <<Entry(hierarchy[second])>>

RECURSIVE Range(_)
Range(s) == IF s = <<>> THEN {} ELSE {Head(s)} \cup Range(Tail(s))

\* C12: a second run of retrieve_code from the root against the same
\* hierarchy, with the children of any nodes listed in another order, ends
\* with the same set of leaf records as the first run.
C12_Idempotence ==
    (CrawlDone /\ previous_results # <<>>) =>
        Range(results) = Range(previous_results[1])

\* The second run is over and has met the leaves in another order than the
\* first.
C12_Witness ==
    /\ CrawlDone /\ previous_results # <<>>
    /\ Len(results) >= 2
    /\ results # previous_results[1]

(***************************************************************************)
(* Properties of the segmentation.                                         *)
(***************************************************************************)
Segmented == ret # <<>> /\ call.fn = "result_df" /\ ret[1].raised = None
Tokens == split_df(call.pages)
Anchors == {i \in 1..Len(Tokens) : contains_code(Tokens[i])}

\* the tokens a to b, joined by single blanks
RECURSIVE Between(_, _, _)
Between(tokens, a, b) ==
    IF a > b THEN <<>>
    ELSE IF a = b THEN tokens[a]
    ELSE tokens[a] \o <<" ">> \o Between(tokens, a + 1, b)

NextAnchor(i) ==
    IF \E a \in Anchors : a > i THEN Min({a \in Anchors : a > i})
    ELSE Len(Tokens) + 1

ExampleSegments ==
    <<[codice |-> <<"6", "A", "0", "0", ".", "0">>,
       content |-> <<"f", "o", "o", " ", "b", "a", "r">>],
      [codice |-> <<"6", "A", "0", "1">>, content |-> <<"b", "a", "z">>]>>

\* C13: over the tokens of all pages, the k-th anchor, at index i, yields the
\* k-th segment: its code is the anchor and its body the single-blank join of
\* the tokens strictly between i and the next anchor, or of all the tokens
\* after i for the last anchor; "6A00.0 foo bar 6A01 baz" yields
\* (6A00.0, "foo bar") and (6A01, "baz").
C13_Segmentation ==
    Segmented =>
        /\ Len(ret[1].rows) = Cardinality(Anchors)
        /\ \A i \in Anchors :
              LET k == Cardinality({a \in Anchors : a <= i})
              IN  /\ ret[1].rows[k].codice = Tokens[i]
                  /\ ret[1].rows[k].content = Between(Tokens, i + 1, NextAnchor(i) - 1)
        /\ call.pages = <<ExamplePage>> => ret[1].rows = ExampleSegments

\* The example of the claim has been segmented.
C13_Witness ==
    /\ Segmented
    /\ call.pages = <<ExamplePage>>
    /\ ret[1].rows = ExampleSegments

\* the non-empty bodies, in order
RECURSIVE Bodies(_)
Bodies(segments) ==
    IF segments = <<>> THEN <<>>
    ELSE (IF Head(segments).content # <<>> THEN <<Head(segments).content>> ELSE <<>>)
             \o Bodies(Tail(segments))

\* the tokens from index i on that are no anchors, in order
RECURSIVE TextTokensFrom(_)
TextTokensFrom(i) ==
    IF i > Len(Tokens) THEN <<>>
    ELSE (IF i \in Anchors THEN <<>> ELSE <<Tokens[i]>>) \o TextTokensFrom(i + 1)

\* C14: the bodies, one after the other, are the non-anchor tokens that
\* follow the first anchor, each once and in their order; no body holds an
\* anchor; the tokens before the first anchor are in no body, and without an
\* anchor there is no segment.
C14_Partition ==
    Segmented =>
        /\ Anchors = {} => ret[1].rows = <<>>
        /\ Anchors # {} =>
              Between(Bodies(ret[1].rows), 1, Len(Bodies(ret[1].rows))) =
                  LET rest == TextTokensFrom(Min(Anchors))
                  IN  Between(rest, 1, Len(rest))
        /\ \A k \in 1..Len(ret[1].rows) : ~contains_code(ret[1].rows[k].content)

\* Two pages: a token before the first anchor, a body of two tokens from two
\* pages, and a last body that ends the sequence.
C14_Witness ==
    /\ Segmented
    /\ call.pages = TwoPages
    /\ Min(Anchors) = 2
    /\ Len(ret[1].rows) = 2
    /\ ret[1].rows[1].content = <<"f", "o", "o", " ", "f", "o", "o">>
    /\ ret[1].rows[2].content = <<"f", "o", "o">>

(***************************************************************************)
(* Properties of the fusion.                                               *)
(***************************************************************************)
Fused == ret # <<>> /\ call.fn \in {"merge", "main"}

\* C15: the codes of the fused records are exactly the codes present both
\* among the entities and among the segments: an entity without a segment and
\* a segment without an entity give no fused record.
C15_InnerJoin ==
    Fused => CodesOf(ret[1]) = CodesOf(call.entities) \cap CodesOf(call.segments)

\* The same for the DataFrame merges of ICD_processing.py alone.
C15_InnerJoinOfMerge ==
    (Fused /\ call.fn = "merge") =>
        CodesOf(ret[1]) = CodesOf(call.entities) \cap CodesOf(call.segments)

\* C16: after the choice of the longest prompt every code of the joined rows
\* has exactly one surviving record, whose prompt length is the maximum over
\* the joined rows of that code; of two segments of one code with bodies of
\* length 10 and 50 the row of the body of length 50 survives.
C16_LongestPrompt ==
    (Fused /\ call.fn = "main") =>
        LET rows == join_query(call.entities, call.segments)
        IN  /\ CodesOf(ret[1]) = CodesOf(rows)
            /\ \A code \in CodesOf(rows) :
                  /\ Cardinality({k \in 1..Len(ret[1]) : ret[1][k].code = code}) = 1
                  /\ \A k \in 1..Len(ret[1]) :
                        ret[1][k].code = code =>
                            /\ \E i \in 1..Len(rows) : rows[i] = ret[1][k]
                            /\ \A i \in 1..Len(rows) :
                                  rows[i].code = code =>
                                      Len(rows[i].prompt) <= Len(ret[1][k].prompt)
                            /\ (\E i \in 1..Len(rows) :
                                    rows[i].code = code /\ rows[i].content = <<Body50>>)
                                  => ret[1][k].content = <<Body50>>

\* One entity and two segments of its code, the bodies of length 10 and 50
\* in this order: the row of the longer body is the one record left.
C16_Witness ==
    /\ Fused /\ call.fn = "main"
    /\ Len(call.entities) = 1
    /\ Len(call.segments) = 2
    /\ call.segments[1] = [code |-> call.entities[1].code, content |-> Body10]
    /\ call.segments[2] = [code |-> call.entities[1].code, content |-> Body50]
    /\ Len(ret[1]) = 1
    /\ ret[1][1].content = <<Body50>>
    /\ Len(ret[1][1].prompt) = Len(sql_prompt(call.entities[1], Null)) + 50

(***************************************************************************)
(* Properties of the flattening of a decision-tree document.               *)
(***************************************************************************)
Parsed == ret # <<>> /\ call.fn = "parse_json_leaves"

\* the keys of the document whose value is a scalar
ScalarKeys == {c \in 1..Len(call.doc) :
                  /\ call.doc[c].kind = "scalar"
                  /\ call.doc[c].parent # 0
                  /\ call.doc[call.doc[c].parent].kind = "dict"}

\* the nodes emitted for the scalar key c (the scalar values of a document
\* are all different)
EmittedFor(c) == {i \in 1..Len(ret[1]) : ret[1][i].value = call.doc[c].value}

\* some three characters of the key are y, e, s in either case
HasYes(key) ==
    \E i \in 1..(Len(key) - 2) :
        key[i] \in {"y", "Y"} /\ key[i + 1] \in {"e", "E"} /\ key[i + 2] \in {"s", "S"}

HasNo(key) ==
    \E i \in 1..(Len(key) - 1) : key[i] \in {"n", "N"} /\ key[i + 1] \in {"o", "O"}

\* C17: the type of an emitted node is 'yes' when its key contains "yes" in
\* whatever case, otherwise 'no' when it contains "no", otherwise
\* 'condition'.
C17_KindOfKey ==
    Parsed =>
        \A c \in ScalarKeys :
            /\ EmittedFor(c) # {}
            /\ \A i \in EmittedFor(c) :
                  ret[1][i].type = IF HasYes(call.doc[c].key) THEN "yes"
                                   ELSE IF HasNo(call.doc[c].key) THEN "no"
                                   ELSE "condition"

\* The key "NoYes" contains both and its node is of type 'yes'.
C17_Witness ==
    /\ Parsed
    /\ Len(call.doc) = 2
    /\ call.doc[2].key = <<"N", "o", "Y", "e", "s">>
    /\ Len(ret[1]) = 1
    /\ ret[1][1].type = "yes"

\* the number of values that enclose node k
RECURSIVE Depth(_, _)
Depth(doc, k) == IF doc[k].parent = 0 THEN 0 ELSE 1 + Depth(doc, doc[k].parent)

ObjectsOnly == \A k \in 1..Len(call.doc) : call.doc[k].kind # "list"

ExampleLeaves ==
    <<[level |-> 1, type |-> "yes", value |-> "diagnosisA",
       parent_condition |-> <<"Q", "1">>],
      [level |-> 3, type |-> "yes", value |-> "diagnosisB",
       parent_condition |-> <<"Q", "2">>]>>

\* C18: in a document of nested objects a scalar-valued key inside d
\* enclosing keys is emitted with level d and with the innermost enclosing
\* key as its parent (none at the root); the example document gives
\* (1, yes, diagnosisA, Q1) and (3, yes, diagnosisB, Q2).
C18_LevelAndParent ==
    (Parsed /\ ObjectsOnly) =>
        /\ \A c \in ScalarKeys :
              /\ EmittedFor(c) # {}
              /\ \A i \in EmittedFor(c) :
                    /\ ret[1][i].level = Depth(call.doc, c) - 1
                    /\ ret[1][i].parent_condition =
                          IF call.doc[c].parent = 1 THEN None
                          ELSE call.doc[call.doc[c].parent].key
        /\ call.doc = ExampleDoc => ret[1] = ExampleLeaves

\* The example document has been flattened.
C18_Witness ==
    /\ Parsed
    /\ call.doc = ExampleDoc
    /\ ret[1] = ExampleLeaves

\* the number of keys that enclose node k: a value counts when it stands
\* under a key, an element of a collection does not
RECURSIVE EnclosingKeys(_, _)
EnclosingKeys(doc, k) ==
    IF doc[k].parent = 0 THEN 0
    ELSE (IF doc[doc[k].parent].key # NoKey THEN 1 ELSE 0)
             + EnclosingKeys(doc, doc[k].parent)

\* C19: for a key at level L whose value is a collection, the scalar-valued
\* keys of an element object are emitted at level L+1 with that key as their
\* parent, as they would be were the object the value of the key itself.
C19_CollectionLevel ==
    Parsed =>
        \A c \in ScalarKeys :
            LET e == call.doc[c].parent
                l == call.doc[e].parent
            IN  (l # 0 /\ call.doc[l].kind = "list" /\ call.doc[l].key # NoKey) =>
                    \A i \in EmittedFor(c) :
                        /\ ret[1][i].level = EnclosingKeys(call.doc, l) + 1
                        /\ ret[1][i].parent_condition = call.doc[l].key

\* C20: every scalar-valued key of the document, at any depth and under
\* objects or collections, has exactly one emitted node, and every emitted
\* node belongs to a scalar-valued key.
C20_ExactlyOnce ==
    Parsed =>
        /\ \A c \in ScalarKeys : Cardinality(EmittedFor(c)) = 1
        /\ Len(ret[1]) = Cardinality(ScalarKeys)
        /\ \A i \in 1..Len(ret[1]) :
              \E c \in ScalarKeys : ret[1][i].value = call.doc[c].value

\* A key whose value is a collection of one object with one scalar-valued
\* key: no node for the key of the collection, one for the key in the object.
C20_Witness ==
    /\ Parsed
    /\ Len(call.doc) = 4
    /\ call.doc[2].kind = "list" /\ call.doc[2].parent = 1
    /\ call.doc[3].kind = "dict" /\ call.doc[3].parent = 2
    /\ call.doc[4].kind = "scalar" /\ call.doc[4].parent = 3
    /\ Len(ret[1]) = 1
    /\ ret[1][1].value = call.doc[4].value

(***************************************************************************)
(* Properties of the loaders.                                              *)
(***************************************************************************)
Upserting == call # <<>> /\ call.fn = "write_dataframe_to_sql"

StoredBefore == IF call.table_exists THEN call.table ELSE <<>>

WrittenFor(run, kind, code) ==
    {k \in 1..Len(run.written) : run.written[k] = <<kind, code>>}

\* The records the run has gone through: every one before the record it is at.
Processed(run) == 1..(run.i - 1)

\* C21: write_dataframe_to_sql on records with unique codes inserts a row
\* whose code is absent, updates a stored row only when some field of the
\* record differs from it, and writes nothing for a record equal to the
\* stored row; the same records applied a second time, after the first
\* application returned, run no INSERT and no UPDATE and leave the table as
\* the first application left it.
C21_UpsertIfChanged ==
    Upserting =>
        /\ writer[2].pc = "idle" =>
              \A k \in Processed(writer[1]) :
                 LET row == call.df[k]
                     stored == select_rows(StoredBefore, row.code)
                 IN  /\ stored = {} =>
                           /\ Cardinality(WrittenFor(writer[1], "INSERT", row.code)) = 1
                           /\ WrittenFor(writer[1], "UPDATE", row.code) = {}
                           /\ \E j \in 1..Len(ICD11_Final_Data.rows) :
                                  ICD11_Final_Data.rows[j] = row
                     /\ WrittenFor(writer[1], "UPDATE", row.code) # {} =>
                           /\ stored # {}
                           /\ \A j \in stored : StoredBefore[j] # row
                     /\ (\E j \in stored : StoredBefore[j] = row) =>
                           /\ WrittenFor(writer[1], "INSERT", row.code) = {}
                           /\ WrittenFor(writer[1], "UPDATE", row.code) = {}
        /\ writer[2].after_first =>
              /\ writer[2].written = <<>>
              /\ ICD11_Final_Data.rows = writer[2].table_at_start

\* A second application that returned, after a first one that inserted one
\* record and updated another.
C21_Witness ==
    /\ Upserting
    /\ writer[2].after_first /\ writer[2].pc = "done"
    /\ \E c \in FinalCodes : WrittenFor(writer[1], "INSERT", <<c>>) # {}
    /\ \E c \in FinalCodes : WrittenFor(writer[1], "UPDATE", <<c>>) # {}

\* The fetches of a depth-first walk from node n that follows the child list
\* of every node fetched with success, in the order of the list.
RECURSIVE Preorder(_, _)
RECURSIVE PreorderOfChildren(_, _, _)
Preorder(h, n) ==
    IF h[n].ok /\ h[n].has_child THEN <<n>> \o PreorderOfChildren(h, h[n].child, 1)
    ELSE <<n>>
PreorderOfChildren(h, children, i) ==
    IF i > Len(children) THEN <<>>
    ELSE Preorder(h, children[i]) \o PreorderOfChildren(h, children, i + 1)

IsPrefix(s, t) == Len(s) <= Len(t) /\ s = SubSeq(t, 1, Len(s))

\* C22 as stated: once the crawl of an acyclic hierarchy whose fetches all
\* succeed has ended, every node has been fetched exactly once.
C22_FetchedOnce ==
    (CrawlDone /\ AllFetchesSucceed) => \A n \in Nodes : FetchCount(n) = 1

\* C22: on every finite acyclic hierarchy retrieve_code terminates; its
\* fetches are those of the depth-first walk in child-list order, a node
\* being fetched once for each path of successful fetches that leads to it
\* from the root (once when a single such path exists).
C22_DepthFirstTermination ==
    /\ [](IsPrefix(fetched, Preorder(hierarchy, RootNode)))
    /\ [](CrawlDone => fetched = Preorder(hierarchy, RootNode))
    /\ <>[](stack = <<>>)

\* A finished crawl in which a node listed by two parents was fetched twice
\* and a node listed by one parent once.
C22_Witness ==
    /\ CrawlDone /\ AllFetchesSucceed
    /\ \E n \in Nodes : FetchCount(n) = 2
    /\ \E n \in Nodes \ {RootNode} : FetchCount(n) = 1
    /\ fetched = Preorder(hierarchy, RootNode)

\* The rootLabels of the stored nodes the query of request r selects.
SelectedRootLabels(r) ==
    {DiagnosisData[i].level_0_info : i \in
        {j \in 1..Len(DiagnosisData) :
            Like(DiagnosisData[j].level_0_info, initial_diagnosis[r])}}

\* C23: the corpus a request traverses holds the nodes of one rootLabel only:
\* the nodes its query has fetched never belong to two different rootLabels.
C23_OneRootLabel ==
    \A r \in active :
        (queried[r] /\ fault[r] # "differential") =>
            /\ differential_diagnoses[r] = CorpusFor(r)
            /\ Cardinality(SelectedRootLabels(r)) <= 1

\* The fragments the pages are split into at the codes, trimmed, before any
\* of them is discarded.
RECURSIVE TrimmedFragments(_)
TrimmedFragments(pages) ==
    IF pages = <<>> THEN <<>>
    ELSE LET pieces == re_split(Head(pages), 1, 1)
         IN  [i \in 1..Len(pieces) |-> strip(pieces[i])] \o TrimmedFragments(Tail(pages))

Fragments == TrimmedFragments(call.pages)
AnchorFragments == {i \in 1..Len(Fragments) : contains_code(Fragments[i])}

\* empty, whitespace-only or shorter than 3 characters after trimming
TooShort(fragment) == Len(fragment) < 3
NotTooShort(fragment) == ~TooShort(fragment)

NextAnchorFragment(i) ==
    IF \E a \in AnchorFragments : a > i THEN Min({a \in AnchorFragments : a > i})
    ELSE Len(Fragments) + 1

\* C24: the fragments that are empty, whitespace-only or shorter than 3
\* characters after trimming are in no segment body (a body is made of the
\* other fragments between its anchor and the next one, and of nothing else),
\* and no anchor is among the discarded fragments: every fragment holding a
\* code yields a segment.
C24_ShortFragmentsDiscarded ==
    Segmented =>
        /\ \A i \in AnchorFragments : ~TooShort(Fragments[i])
        /\ Len(ret[1].rows) = Cardinality(AnchorFragments)
        /\ \A i \in AnchorFragments :
              LET k == Cardinality({a \in AnchorFragments : a <= i})
                  kept == SelectSeq(SubSeq(Fragments, i + 1, NextAnchorFragment(i) - 1),
                                    NotTooShort)
              IN  /\ ret[1].rows[k].codice = Fragments[i]
                  /\ ret[1].rows[k].content = Between(kept, 1, Len(kept))

\* Two anchors with nothing but a fragment of two characters between them,
\* and an empty fragment: the body of the first anchor is empty.
C24_Witness ==
    /\ Segmented
    /\ \E i \in AnchorFragments : \E j \in AnchorFragments :
          /\ j = i + 2
          /\ Len(Fragments[i + 1]) = 2
          /\ ret[1].rows[Cardinality({a \in AnchorFragments : a <= i})].content = <<>>
    /\ \E i \in 1..Len(Fragments) : Fragments[i] = <<>>

\* The prompt the statement describes for an entity and a segment body: every
\* clause only when its field holds a text, then the body.
ClausesWhenPresent(c, content) ==
    (IF c.definition # Null
     THEN "Disorder Name: " \o c.title \o "\\n" \o
          "Disorder Code: " \o Flatten(c.code) \o "\\n" \o
          "Disorder symptoms: " \o c.definition[1] \o "\\n"
     ELSE "") \o
    (IF c.inclusions # Null /\ c.inclusions # <<"">>
     THEN "If you have " \o c.inclusions[1] \o " other inclusions could be: "
              \o c.inclusions[1] \o "\\n"
     ELSE "") \o
    (IF c.exclusions # Null /\ c.exclusions # <<"">>
     THEN "If you diagnose this disease exclude: " \o c.exclusions[1] \o "\\n"
     ELSE "") \o
    ISNULL(content)

\* C25: the fused prompt of a record is, in this order, the header (present
\* iff the definition is a text), the inclusions clause (present iff there
\* are inclusions), the exclusions clause (present iff there are exclusions),
\* the diagnostic-criteria clause (the entities here have no criteria) and
\* the raw segment body.
C25_PromptComposition ==
    (Fused /\ call.fn = "main") =>
        \A k \in 1..Len(ret[1]) : \A e \in 1..Len(call.entities) :
            call.entities[e].code = ret[1][k].code =>
                ret[1][k].prompt = ClausesWhenPresent(call.entities[e], ret[1][k].content)

(***************************************************************************)
(* Properties of the replay of yes/no histories, of the level and of the   *)
(* connection.                                                             *)
(***************************************************************************)
YesNoHistory(r) ==
    /\ previous_answers[r] # <<>>
    /\ \A i \in 1..Len(previous_answers[r]) : previous_answers[r][i] \in {"yes", "no"}

\* the value of the first 'condition' node of level 1, None without one
FirstQuestion(diagnoses) ==
    LET c == EligibleConditions(diagnoses, 0, None)
    IN  IF c = {} THEN None ELSE diagnoses[Min(c)].value

\* C26: when every answer of previous_answers is "yes" or "no", the first
\* replay step finds no question and ends the replay at level 0 (one replay
\* step whatever the length of the history), and the final step returns the
\* first 'condition' node of level 1, at level 1, whatever the history is.
C26_YesNoReplay ==
    \A r \in active :
        YesNoHistory(r) =>
            /\ pc[r] = "replay" => calls[r] = <<>> /\ current_level[r] = 0
            /\ pc[r] = "final_step" =>
                  /\ calls[r] = <<<<0, previous_answers[r][1]>>>>
                  /\ next_question[r] = None
                  /\ current_level[r] = 0
            /\ Traversed(r) =>
                  /\ calls[r] = <<<<0, previous_answers[r][1]>>, <<0, None>>>>
                  /\ next_question[r] = FirstQuestion(differential_diagnoses[r])
                  /\ current_level[r] =
                        IF EligibleConditions(differential_diagnoses[r], 0, None) = {}
                        THEN 0 ELSE 1
            /\ (Answered(r) /\ IsQuestionShape(response[r][1])) =>
                  /\ response[r][1].next_question = FirstQuestion(differential_diagnoses[r])
                  /\ response[r][1].current_level = 1

\* A history of two yes/no answers over a graph with a 'yes' node and a
\* 'condition' node at level 1 and a 'condition' node at level 2: the answer
\* is the question of level 1.
C26_Witness ==
    /\ Answered(1) /\ YesNoHistory(1)
    /\ Len(previous_answers[1]) = 2
    /\ \E i \in 1..Len(differential_diagnoses[1]) :
          differential_diagnoses[1][i].level = 1 /\ differential_diagnoses[1][i].type = "yes"
    /\ \E i \in 1..Len(differential_diagnoses[1]) :
          differential_diagnoses[1][i].level = 2
              /\ differential_diagnoses[1][i].type = "condition"
    /\ IsQuestionShape(response[1][1])
    /\ response[1][1].current_level = 1

\* One step of the handling of request r leaves the level or adds one to it.
LevelStep(r) == current_level'[r] \in {current_level[r], current_level[r] + 1}

\* C27: the level of a request is 0 when its replay starts, never decreases
\* and grows by 0 or 1 with every transition step; it never exceeds the
\* number of transition steps taken, and the level returned with a next
\* question is at least 1 and at most len(previous_answers) + 1.
C27_LevelBounds ==
    /\ [][\A r \in Requests : LevelStep(r)]_vars
    /\ [](\A r \in active :
            /\ (pc[r] \in {"replay", "final_step"} /\ calls[r] = <<>>) =>
                  current_level[r] = 0
            /\ current_level[r] >= 0
            /\ pc[r] \in {"replay", "final_step", "respond"} =>
                  current_level[r] <= Len(calls[r])
            /\ (Answered(r) /\ IsQuestionShape(response[r][1])) =>
                  /\ response[r][1].current_level >= 1
                  /\ response[r][1].current_level <= Len(previous_answers[r]) + 1)

\* A question returned at the highest level its history allows: one answer
\* replayed, one final step, level 2.
C27_Witness ==
    /\ Answered(1) /\ IsQuestionShape(response[1][1])
    /\ Len(previous_answers[1]) = 1
    /\ Len(calls[1]) = 2
    /\ response[1][1].current_level = Len(previous_answers[1]) + 1

TreeReaderRuns == call # <<>> /\ call.fn = "tree_reader_main" /\ ret # <<>>

\* the nodes of a document, as rows of DiagnosisData
NodesOfFile(file) ==
    [i \in 1..Len(file.leaves) |->
        Row(file.level_0_info, file.leaves[i].level, file.leaves[i].type,
            file.leaves[i].value)]

StoredNodesOf(file) ==
    {i \in 1..Len(DiagnosisData) : DiagnosisData[i].level_0_info = file.level_0_info}

Loaded(file) ==
    file.outcome = "ok" /\ file.fail_at = 0 /\ ~file.commit_fails

\* the table after the first k files: the nodes of the loaded ones, in order
RECURSIVE LoadedNodes(_)
LoadedNodes(k) ==
    IF k = 0 THEN <<>>
    ELSE LoadedNodes(k - 1) \o
             (IF Loaded(call.files[k]) THEN NodesOfFile(call.files[k]) ELSE <<>>)

\* C28: after process_json_file has returned for a document, either all its
\* nodes are committed to DiagnosisData or none is, and nothing is left
\* uncommitted; the nodes committed for the earlier documents are all still
\* there, and the loop goes on to the last document whatever failed before.
C28_AtomicPerDocument ==
    /\ [](TreeReaderRuns =>
            /\ ret[1].uncommitted = <<>>
            /\ \A k \in 1..(ret[1].next - 1) :
                  \/ StoredNodesOf(call.files[k]) = {}
                  \/ Cardinality(StoredNodesOf(call.files[k])) = Len(call.files[k].leaves)
            /\ DiagnosisData = LoadedNodes(ret[1].next - 1))
    /\ <>(TreeReaderRuns /\ ret[1].next = Len(call.files) + 1)

\* Three documents: the first loaded, the second with a second INSERT that
\* raises, the third loaded; the table holds the nodes of the first and of
\* the third.
C28_Witness ==
    /\ TreeReaderRuns
    /\ Len(call.files) = 3 /\ ret[1].next = 4
    /\ Loaded(call.files[1]) /\ Len(call.files[1].leaves) = 2
    /\ call.files[2].fail_at = 2
    /\ Loaded(call.files[3]) /\ Len(call.files[3].leaves) = 2
    /\ DiagnosisData = NodesOfFile(call.files[1]) \o NodesOfFile(call.files[3])

Inserted == call # <<>> /\ call.fn = "insert_data_into_table" /\ ret # <<>>

\* C29: after insert_data_into_table has returned, every row of the batch
\* whose INSERT did not raise is in ICD11_Codes, the rows inserted before a
\* later row failed included.
C29_InsertedRowsCommitted ==
    Inserted =>
        \A i \in 1..Len(call.data) :
            i \notin ret[1].raised =>
                \E j \in 1..Len(ICD11_Codes) : ICD11_Codes[j] = call.data[i]

\* C30: when askLLM has answered a request for which it had opened a
\* database connection, the connection has been closed.
C30_ConnectionClosed ==
    \A r \in active : pc[r] = "done" => conn[r] # "open"

====
